---- MODULE Spec2Model ----
(***************************************************************************)
(* Model of the project-management backend: bearer authentication, the     *)
(* owner-scoped client and project endpoints, and the dashboard statistics *)
(* read path.  A request is one atomic step (one session, one commit), or  *)
(* a sequence of steps of a worker while other workers take theirs.        *)
(***************************************************************************)
EXTENDS Integers, Sequences, FiniteSets, TLC

VARIABLES
    users,               \* rows of table users
    clients,             \* rows of table clients
    projects,            \* rows of table projects
    settings,            \* rows of table user_settings
    now,                 \* the clock (ticks), read by datetime.now and by the database
    updated_at_default,  \* what the schema stores in updated_at on insert: "null" or "now"
    req,                 \* the last request received
    resp,                \* the response given to it
    inflight             \* per worker, the request it is handling and its session

vars == <<users, clients, projects, settings, now, updated_at_default, req, resp, inflight>>
store == <<users, clients, projects, settings>>

----------------------------------------------------------------------------
(* Optional values: Python None / SQL NULL / JSON null is None, a value v  *)
(* is Some(v).  A field that a JSON body does not carry is Absent.         *)
None == <<>>
Some(v) == <<v>>
Absent == <<"absent", "absent">>

(* Bounds of the model. *)
MaxProjects == 2
MaxClients == 1
MaxTick == 1
TicksPerMonth == 2

AuthMaxRows == 1
UpdMaxProjects == 1
UpdMaxClients == 2
CascMaxProjects == 2
CascMaxClients == 2
StatMaxProjects == 3
BucketMaxProjects == 2
LabelMaxTick == 60
RecentMaxProjects == 6
RecentMaxOthers == 1
RecentMaxTick == 3
RecentMaxTies == 2
RecentMaxRenamed == 2
SignupMaxUsers == 5
MoneyMaxProjects == 2
AtomMaxProjects == 2
AtomMaxClients == 2
RefMaxProjects == 2
RefMaxClients == 2
RaceMaxProjects == 1

(* Program constants. *)
RecentLimit == 5
MonthsShown == 12
DefaultPageSize == 50
MaxPageSize == 200

UserIds == {"u1", "u2", "u3"}
ActiveUserIds == {"u1", "u2"}
UnknownUserId == "u9"
ClientIds == <<"c1", "c2", "c3", "c4">>
ProjectIds == <<"p1", "p2", "p3", "p4", "p5", "p6", "p7", "p8">>
NeverIssuedId == "x0"
SignupIds == <<"u4", "u5", "u6">>

ProjectStatus == {"active", "completed", "paused", "cancelled"}

----------------------------------------------------------------------------
(* Time.  A timestamp is a tick count; tick 0 is the first instant of      *)
(* December 2023 (UTC).                                                    *)
EpochMonthIndex == 2023 * 12 + 11
MonthIndex(ts) == EpochMonthIndex + (ts \div TicksPerMonth)
YearOf(ts) == MonthIndex(ts) \div 12
MonthOf(ts) == (MonthIndex(ts) % 12) + 1

(* The instants at which requests arrive: the first ticks, and the same    *)
(* ticks twelve months later.                                              *)
Instants == (0 .. MaxTick) \cup {12 * TicksPerMonth + t : t \in 0 .. MaxTick}

Digit == <<"0", "1", "2", "3", "4", "5", "6", "7", "8", "9">>

RECURSIVE DecDigits(_)
DecDigits(n) ==
    IF n < 10 THEN <<Digit[n + 1]>> ELSE DecDigits(n \div 10) \o <<Digit[(n % 10) + 1]>>

RECURSIVE ZeroPad(_, _)
ZeroPad(s, width) == IF Len(s) < width THEN ZeroPad(<<"0">> \o s, width) ELSE s

(* f"{yy:04d}-{mm:02d}" *)
FormatLabel(yy, mm) == ZeroPad(DecDigits(yy), 4) \o <<"-">> \o ZeroPad(DecDigits(mm), 2)

(* while mm <= 0: mm += 12; yy -= 1 *)
Rollover_NoCarry(mm, yy) == <<IF mm <= 0 THEN mm + 12 ELSE mm, yy>>

RECURSIVE Rollover(_, _)
Rollover(mm, yy) == IF mm <= 0 THEN Rollover(mm + 12, yy - 1) ELSE <<mm, yy>>

MonthLabelAt(y, m, i) ==
    LET r == Rollover(m - i, y) IN FormatLabel(r[2], r[1])

(* for i in range(11, -1, -1): element k of the list is made with i = 12 - k *)
_month_labels_last_12_months(y, m) ==
    [k \in 1 .. MonthsShown |-> MonthLabelAt(y, m, MonthsShown - k)]

(* PostgreSQL to_char(ts, 'YYYY-MM') *)
to_char_YYYY_MM(ts) ==
    ZeroPad(DecDigits(YearOf(ts)), 4) \o <<"-">> \o ZeroPad(DecDigits(MonthOf(ts)), 2)

----------------------------------------------------------------------------
(* Generic helpers. *)
Max(a, b) == IF a >= b THEN a ELSE b
Min(a, b) == IF a <= b THEN a ELSE b

RECURSIVE SumRevenue(_)
SumRevenue(S) ==
    IF S = {} THEN 0
    ELSE LET p == CHOOSE x \in S : TRUE IN p.revenue_cents + SumRevenue(S \ {p})

RECURSIVE CountRows(_)
CountRows(S) ==
    IF S = {} THEN 0 ELSE LET p == CHOOSE x \in S : TRUE IN 1 + CountRows(S \ {p})

(* ORDER BY key DESC: every sequence the database may return for the rows  *)
(* S, K[x] being the sort key of row x; rows with equal keys come in any   *)
(* order.                                                                  *)
RECURSIVE OrderByDesc(_, _)
OrderByDesc(S, K) ==
    IF S = {} THEN {<<>>}
    ELSE LET top == {x \in S : \A y \in S : K[x] >= K[y]}
         IN UNION {{<<x>> \o rest : rest \in OrderByDesc(S \ {x}, K)} : x \in top}

(* LIMIT n OFFSET k on an ordered result. *)
LimitOffset(s, n, k) == SubSeq(s, k + 1, Min(Len(s), k + n))

Range(s) == {s[i] : i \in DOMAIN s}

----------------------------------------------------------------------------
(* Bearer credentials.  A token is what the client sends after "Bearer":   *)
(* form says whether it is empty, not a JWT, a JWT with a wrong signature, *)
(* or a JWT signed with the server's key; exp and sub are its claims.      *)
Token(form, exp, sub) == [form |-> form, exp |-> exp, sub |-> sub]

ValidToken(uid) == Some(Token("signed", now + 1, Some(uid)))

BadCredentials ==
    { None,
      Some(Token("empty", 0, None)),
      Some(Token("malformed", 0, None)),
      Some(Token("forged", now + 1, Some("u1"))),
      Some(Token("signed", now - 1, Some("u1"))),
      Some(Token("signed", now + 1, None)),
      Some(Token("signed", now + 1, Some("not-a-uuid"))),
      Some(Token("signed", now + 1, Some(UnknownUserId))),
      Some(Token("signed", now + 1, Some("u3"))) }

GoodCredentials == {ValidToken(u) : u \in ActiveUserIds}
Credentials == BadCredentials \cup GoodCredentials

(* jwt.decode: the signature and the expiry are checked; the claims are    *)
(* returned, or JWTError is raised.                                        *)
decode_token(token) ==
    IF token.form = "signed" /\ token.exp >= now
    THEN [ok |-> TRUE, sub |-> token.sub]
    ELSE [ok |-> FALSE, sub |-> None]

(* uuid.UUID(sub) succeeds *)
IsUuid(s) == s \in UserIds \cup {UnknownUserId} \cup Range(SignupIds)

AuthOk(uid) == [ok |-> TRUE, user |-> uid, detail |-> ""]
AuthFail(detail) == [ok |-> FALSE, user |-> "", detail |-> detail]

get_current_user(creds) ==
    IF creds = None \/ creds[1].form = "empty"
    THEN AuthFail("Not authenticated")
    ELSE LET payload == decode_token(creds[1]) IN
         IF ~payload.ok THEN AuthFail("Invalid or expired token")
         ELSE IF payload.sub = None \/ payload.sub[1] = ""
         THEN AuthFail("Invalid token payload")
         ELSE IF ~IsUuid(payload.sub[1]) THEN AuthFail("Invalid token subject")
         ELSE LET found == {u \in users : u.id = payload.sub[1]} IN
              IF found = {} \/ \E u \in found : ~u.is_active
              THEN AuthFail("User not found or inactive")
              ELSE AuthOk(payload.sub[1])

----------------------------------------------------------------------------
(* Outcome of a request: the response and the tables as committed.         *)
Out(status, detail, body, U, C, P, S) ==
    [status |-> status, detail |-> detail, body |-> body,
     users |-> U, clients |-> C, projects |-> P, settings |-> S]

(* A response that commits nothing. *)
Reply(status, detail, body) == Out(status, detail, body, users, clients, projects, settings)

HTTPException(status, detail) == Reply(status, detail, None)
Unauthorized(detail) == HTTPException(401, detail)
ValidationError == HTTPException(422, "Unprocessable Entity")
InternalServerError(U, C, P, S) == Out(500, "Internal Server Error", None, U, C, P, S)

(* Routers mounted on the application. *)
IncludedRouters == {"auth", "user", "clients", "projects", "dashboard"}

(* uuid.uuid4(): an identifier no row has; the first unused one of the pool. *)
FreshId(pool, used) ==
    pool[CHOOSE i \in DOMAIN pool : pool[i] \notin used /\ \A j \in 1 .. i - 1 : pool[j] \in used]

(* Column defaults of the schema on insert and the row's update timestamp. *)
InsertedUpdatedAt == IF updated_at_default = "now" THEN Some(now) ELSE None
TouchedUpdatedAt(old, new) == IF old = new THEN old.updated_at ELSE Some(now)

----------------------------------------------------------------------------
(* Projects. *)
ProjectFields ==
    {"client_id", "name", "description", "status", "start_date", "due_date",
     "budget_cents", "revenue_cents"}
NullableProjectFields == {"client_id", "description", "start_date", "due_date"}

(* A JSON body carrying the fields of f, the others absent. *)
ProjectBody(f) == [k \in ProjectFields |-> IF k \in DOMAIN f THEN f[k] ELSE Absent]

NonNegative_Unchecked(x) == TRUE

NonNegative(x) == x = Absent \/ (x # None /\ x[1] >= 0)
NonNegativeOrNull(x) == x \in {Absent, None} \/ x[1] >= 0

(* ProjectBase / ProjectCreateRequest: the field constraints and defaults. *)
ProjectCreateRequest(body) ==
    [valid |->
        /\ body.name \notin {Absent, None} /\ body.name[1] # ""
        /\ body.status = Absent \/ (body.status # None /\ body.status[1] \in ProjectStatus)
        /\ NonNegative(body.budget_cents)
        /\ NonNegative(body.revenue_cents),
     client_id |-> IF body.client_id = Absent THEN None ELSE body.client_id,
     name |-> IF body.name \in {Absent, None} THEN "" ELSE body.name[1],
     description |-> IF body.description = Absent THEN None ELSE body.description,
     status |-> IF body.status \in {Absent, None} THEN "active" ELSE body.status[1],
     start_date |-> IF body.start_date = Absent THEN None ELSE body.start_date,
     due_date |-> IF body.due_date = Absent THEN None ELSE body.due_date,
     budget_cents |-> IF body.budget_cents \in {Absent, None} THEN 0 ELSE body.budget_cents[1],
     revenue_cents |-> IF body.revenue_cents \in {Absent, None} THEN 0 ELSE body.revenue_cents[1]]

(* ProjectUpdateRequest: every field optional, None when not given. *)
ProjectUpdateRequest(body) ==
    [valid |->
        /\ body.name \in {Absent, None} \/ body.name[1] # ""
        /\ body.status \in {Absent, None} \/ body.status[1] \in ProjectStatus
        /\ NonNegativeOrNull(body.budget_cents)
        /\ NonNegativeOrNull(body.revenue_cents),
     client_id |-> IF body.client_id = Absent THEN None ELSE body.client_id,
     name |-> IF body.name = Absent THEN None ELSE body.name,
     description |-> IF body.description = Absent THEN None ELSE body.description,
     status |-> IF body.status = Absent THEN None ELSE body.status,
     start_date |-> IF body.start_date = Absent THEN None ELSE body.start_date,
     due_date |-> IF body.due_date = Absent THEN None ELSE body.due_date,
     budget_cents |-> IF body.budget_cents = Absent THEN None ELSE body.budget_cents,
     revenue_cents |-> IF body.revenue_cents = Absent THEN None ELSE body.revenue_cents]

(* ProjectResponse requires updated_at to be a datetime. *)
ProjectResponseValid(project) == project.updated_at # None

_to_project_response(project) ==
    [id |-> project.id,
     owner_user_id |-> project.owner_user_id,
     client_id |-> project.client_id,
     name |-> project.name,
     description |-> project.description,
     status |-> project.status,
     start_date |-> project.start_date,
     due_date |-> project.due_date,
     budget_cents |-> project.budget_cents,
     revenue_cents |-> project.revenue_cents,
     created_at |-> project.created_at,
     updated_at |-> project.updated_at]

(* Mutant: the client lookup forgets the owner filter. *)
_ensure_client_belongs_to_user_AnyOwner(uid, client_id) ==
    \E c \in clients : c.id = client_id

(* select(Client.id).where(Client.id == client_id, owner == current user) *)
_ensure_client_belongs_to_user(uid, client_id) ==
    \E c \in clients : c.id = client_id /\ c.owner_user_id = uid

(* Mutant: the lookup forgets the owner filter. *)
FindProject_AnyOwner(uid, project_id) ==
    {p \in projects : p.id = project_id}

(* select(Project).where(Project.id == project_id, owner == current user) *)
FindProject(uid, project_id) ==
    {p \in projects : p.id = project_id /\ p.owner_user_id = uid}

get_project(uid, project_id) ==
    LET found == FindProject(uid, project_id) IN
    IF found = {} THEN HTTPException(404, "Project not found")
    ELSE LET project == CHOOSE p \in found : TRUE IN
         IF ProjectResponseValid(project)
         THEN Reply(200, "", _to_project_response(project))
         ELSE InternalServerError(users, clients, projects, settings)

create_project(uid, body) ==
    LET payload == ProjectCreateRequest(body) IN
    IF ~payload.valid THEN ValidationError
    ELSE IF payload.client_id # None /\ ~_ensure_client_belongs_to_user(uid, payload.client_id[1])
    THEN HTTPException(404, "Client not found")
    ELSE LET project ==
                 [id |-> FreshId(ProjectIds, {p.id : p \in projects}),
                  owner_user_id |-> uid,
                  client_id |-> payload.client_id,
                  name |-> payload.name,
                  description |-> payload.description,
                  status |-> payload.status,
                  start_date |-> payload.start_date,
                  due_date |-> payload.due_date,
                  budget_cents |-> payload.budget_cents,
                  revenue_cents |-> payload.revenue_cents,
                  created_at |-> now,
                  updated_at |-> InsertedUpdatedAt]
             committed == projects \cup {project}
         IN IF ProjectResponseValid(project)
            THEN Out(201, "", _to_project_response(project), users, clients, committed, settings)
            ELSE InternalServerError(users, clients, committed, settings)

(* if payload.<field> is not None: project.<field> = payload.<field> *)
SetIfGiven(old, given) == IF given # None THEN given[1] ELSE old
SetNullableIfGiven(old, given) == IF given # None THEN given ELSE old

update_project(uid, project_id, body) ==
    LET payload == ProjectUpdateRequest(body)
        found == FindProject(uid, project_id)
    IN
    IF ~payload.valid THEN ValidationError
    ELSE IF found = {} THEN HTTPException(404, "Project not found")
    ELSE IF payload.client_id # None /\ ~_ensure_client_belongs_to_user(uid, payload.client_id[1])
    THEN HTTPException(404, "Client not found")
    ELSE LET project == CHOOSE p \in found : TRUE
             edited ==
                 [project EXCEPT
                    !.client_id = SetNullableIfGiven(@, payload.client_id),
                    !.name = SetIfGiven(@, payload.name),
                    !.description = SetNullableIfGiven(@, payload.description),
                    !.status = SetIfGiven(@, payload.status),
                    !.start_date = SetNullableIfGiven(@, payload.start_date),
                    !.due_date = SetNullableIfGiven(@, payload.due_date),
                    !.budget_cents = SetIfGiven(@, payload.budget_cents),
                    !.revenue_cents = SetIfGiven(@, payload.revenue_cents)]
             saved == [edited EXCEPT !.updated_at = TouchedUpdatedAt(project, edited)]
             committed == (projects \ {project}) \cup {saved}
         IN IF ProjectResponseValid(saved)
            THEN Out(200, "", _to_project_response(saved), users, clients, committed, settings)
            ELSE InternalServerError(users, clients, committed, settings)

delete_project(uid, project_id) ==
    LET found == FindProject(uid, project_id) IN
    IF found = {} THEN HTTPException(404, "Project not found")
    ELSE Out(204, "", None, users, clients, projects \ found, settings)

(* list_projects; the text filter q is never given in the modelled requests. *)
list_projects_results(uid, status_filter, client_id, limit, offset) ==
    LET owned == {p \in projects : p.owner_user_id = uid}
        byStatus == IF status_filter # None
                    THEN {p \in owned : p.status = status_filter[1]} ELSE owned
        byClient == IF client_id # None
                    THEN {p \in byStatus : p.client_id = client_id} ELSE byStatus
        key == [p \in byClient |-> p.created_at]
    IN {LimitOffset(s, limit, offset) : s \in OrderByDesc(byClient, key)}

PageValid(limit, offset) == limit >= 1 /\ limit <= MaxPageSize /\ offset >= 0

(* The responses list_projects may give (one per order of tied rows). *)
list_projects(uid, status_filter, client_id, limit, offset) ==
    IF ~PageValid(limit, offset) \/ (status_filter # None /\ status_filter[1] \notin ProjectStatus)
    THEN {ValidationError}
    ELSE IF client_id # None /\ ~_ensure_client_belongs_to_user(uid, client_id[1])
    THEN {HTTPException(404, "Client not found")}
    ELSE {IF \A i \in DOMAIN page : ProjectResponseValid(page[i])
          THEN Reply(200, "", [i \in DOMAIN page |-> _to_project_response(page[i])])
          ELSE InternalServerError(users, clients, projects, settings)
          : page \in list_projects_results(uid, status_filter, client_id, limit, offset)}

(* str() of a member of the (str, Enum) class ProjectStatus. *)
EnumStr(status) == "ProjectStatus." \o status

(* Client.name through the outer join on Client.id == Project.client_id. *)
JoinedClientName(project) ==
    LET joined == {c \in clients : project.client_id = Some(c.id)} IN
    IF joined = {} THEN None ELSE Some((CHOOSE c \in joined : TRUE).name)

ExportRow(project) ==
    [id |-> project.id,
     name |-> project.name,
     client_name |-> IF JoinedClientName(project) = None THEN "" ELSE JoinedClientName(project)[1],
     status |-> EnumStr(project.status),
     start_date |-> IF project.start_date = None THEN "" ELSE project.start_date[1],
     end_date |-> IF project.due_date = None THEN "" ELSE project.due_date[1],
     revenue_cents |-> project.revenue_cents,
     updated_at |-> project.updated_at]

(* The responses export_projects_csv may give: the data rows, in order. *)
export_projects_csv(uid) ==
    LET owned == {p \in projects : p.owner_user_id = uid}
        key == [p \in owned |-> p.created_at]
    IN {Reply(200, "", [i \in DOMAIN s |-> ExportRow(s[i])]) : s \in OrderByDesc(owned, key)}

----------------------------------------------------------------------------
(* Clients. *)
ClientFields == {"name", "email", "phone", "company", "notes"}
ClientBody(f) == [k \in ClientFields |-> IF k \in DOMAIN f THEN f[k] ELSE Absent]

(* EmailStr accepts the address. *)
IsEmail(s) == s \in {"a@x.io", "b@x.io"}

ClientCreateRequest(body) ==
    [valid |->
        /\ body.name \notin {Absent, None} /\ body.name[1] # ""
        /\ body.email \in {Absent, None} \/ IsEmail(body.email[1]),
     name |-> IF body.name \in {Absent, None} THEN "" ELSE body.name[1],
     email |-> IF body.email = Absent THEN None ELSE body.email,
     phone |-> IF body.phone = Absent THEN None ELSE body.phone,
     company |-> IF body.company = Absent THEN None ELSE body.company,
     notes |-> IF body.notes = Absent THEN None ELSE body.notes]

ClientUpdateRequest(body) ==
    [valid |->
        /\ body.name \in {Absent, None} \/ body.name[1] # ""
        /\ body.email \in {Absent, None} \/ IsEmail(body.email[1]),
     name |-> IF body.name = Absent THEN None ELSE body.name,
     email |-> IF body.email = Absent THEN None ELSE body.email,
     phone |-> IF body.phone = Absent THEN None ELSE body.phone,
     company |-> IF body.company = Absent THEN None ELSE body.company,
     notes |-> IF body.notes = Absent THEN None ELSE body.notes]

ClientResponseValid(client) == client.updated_at # None

_to_client_response(client) ==
    [id |-> client.id,
     owner_user_id |-> client.owner_user_id,
     name |-> client.name,
     email |-> client.email,
     phone |-> client.phone,
     company |-> client.company,
     notes |-> client.notes,
     created_at |-> client.created_at,
     updated_at |-> client.updated_at]

(* Mutant: the lookup forgets the owner filter. *)
FindClient_AnyOwner(uid, client_id) ==
    {c \in clients : c.id = client_id}

(* select(Client).where(Client.id == client_id, owner == current user) *)
FindClient(uid, client_id) ==
    {c \in clients : c.id = client_id /\ c.owner_user_id = uid}

(* The responses list_clients may give; q is never given. *)
list_clients(uid, limit, offset) ==
    IF ~PageValid(limit, offset) THEN {ValidationError}
    ELSE LET owned == {c \in clients : c.owner_user_id = uid}
             key == [c \in owned |-> c.created_at]
         IN {LET page == LimitOffset(s, limit, offset) IN
             IF \A i \in DOMAIN page : ClientResponseValid(page[i])
             THEN Reply(200, "", [i \in DOMAIN page |-> _to_client_response(page[i])])
             ELSE InternalServerError(users, clients, projects, settings)
             : s \in OrderByDesc(owned, key)}

get_client(uid, client_id) ==
    LET found == FindClient(uid, client_id) IN
    IF found = {} THEN HTTPException(404, "Client not found")
    ELSE LET client == CHOOSE c \in found : TRUE IN
         IF ClientResponseValid(client)
         THEN Reply(200, "", _to_client_response(client))
         ELSE InternalServerError(users, clients, projects, settings)

create_client(uid, body) ==
    LET payload == ClientCreateRequest(body) IN
    IF ~payload.valid THEN ValidationError
    ELSE LET client ==
                 [id |-> FreshId(ClientIds, {c.id : c \in clients}),
                  owner_user_id |-> uid,
                  name |-> payload.name,
                  email |-> payload.email,
                  phone |-> payload.phone,
                  company |-> payload.company,
                  notes |-> payload.notes,
                  created_at |-> now,
                  updated_at |-> InsertedUpdatedAt]
             committed == clients \cup {client}
         IN IF ClientResponseValid(client)
            THEN Out(201, "", _to_client_response(client), users, committed, projects, settings)
            ELSE InternalServerError(users, committed, projects, settings)

update_client(uid, client_id, body) ==
    LET payload == ClientUpdateRequest(body)
        found == FindClient(uid, client_id)
    IN
    IF ~payload.valid THEN ValidationError
    ELSE IF found = {} THEN HTTPException(404, "Client not found")
    ELSE LET client == CHOOSE c \in found : TRUE
             edited ==
                 [client EXCEPT
                    !.name = SetIfGiven(@, payload.name),
                    !.email = SetNullableIfGiven(@, payload.email),
                    !.phone = SetNullableIfGiven(@, payload.phone),
                    !.company = SetNullableIfGiven(@, payload.company),
                    !.notes = SetNullableIfGiven(@, payload.notes)]
             saved == [edited EXCEPT !.updated_at = TouchedUpdatedAt(client, edited)]
             committed == (clients \ {client}) \cup {saved}
         IN IF ClientResponseValid(saved)
            THEN Out(200, "", _to_client_response(saved), users, committed, projects, settings)
            ELSE InternalServerError(users, committed, projects, settings)

(* Mutant: the foreign key cascades the delete to the projects. *)
OnDeleteCascade(P, client_id) == {p \in P : p.client_id # Some(client_id)}

(* ForeignKey("clients.id", ondelete="SET NULL") on projects.client_id *)
OnDeleteSetNull(P, client_id) ==
    {IF p.client_id = Some(client_id) THEN [p EXCEPT !.client_id = None] ELSE p : p \in P}

delete_client(uid, client_id) ==
    LET found == FindClient(uid, client_id) IN
    IF found = {} THEN HTTPException(404, "Client not found")
    ELSE Out(204, "", None, users, clients \ found, OnDeleteSetNull(projects, client_id), settings)

----------------------------------------------------------------------------
(* Dashboard statistics. *)
OwnedProjects_AnyOwner(uid) == projects

OwnedProjects(uid) == {p \in projects : p.owner_user_id = uid}

(* select count() where owner == user and status == active *)
ActiveProjectRows_AnyStatus(uid) == {p \in projects : p.owner_user_id = uid}

ActiveProjectRows(uid) ==
    {p \in projects : p.owner_user_id = uid /\ p.status = "active"}
TotalActiveProjects(uid) == CountRows(ActiveProjectRows(uid))

(* select coalesce(sum(revenue_cents), 0) where owner == user *)
TotalRevenueCents_ActiveOnly(uid) == SumRevenue(ActiveProjectRows(uid))

TotalRevenueCents(uid) == SumRevenue(OwnedProjects(uid))

(* func.coalesce(Project.updated_at, Project.created_at) *)
RecencyTs_CreatedOnly(project) == project.created_at

RecencyTs(project) ==
    IF project.updated_at # None THEN project.updated_at[1] ELSE project.created_at

(* The month key of a project row: to_char(Project.created_at, "YYYY-MM"). *)
MonthKey_ByRecency(project) == to_char_YYYY_MM(RecencyTs(project))

MonthKey(project) == to_char_YYYY_MM(project.created_at)

(* group by month key: month -> sum of revenue_cents *)
MonthToRevenue(uid) ==
    LET owned == OwnedProjects(uid) IN
    [k \in {MonthKey(p) : p \in owned} |-> SumRevenue({p \in owned : MonthKey(p) = k})]

RevenueByMonth(uid) ==
    LET labels == _month_labels_last_12_months(YearOf(now), MonthOf(now))
        month_to_revenue == MonthToRevenue(uid)
    IN [i \in DOMAIN labels |->
           [month |-> labels[i],
            revenue_cents |->
                Max(0, IF labels[i] \in DOMAIN month_to_revenue
                       THEN month_to_revenue[labels[i]] ELSE 0)]]

(* The results the recent-projects query may give: the project rows, in order. *)
RecentRows(uid) ==
    LET owned == OwnedProjects(uid)
        key == [p \in owned |-> RecencyTs(p)]
    IN {LimitOffset(s, RecentLimit, 0) : s \in OrderByDesc(owned, key)}

(* RecentProjectItem requires updated_at to be a datetime. *)
RecentItemValid(row) == row.updated_at # None

_build_recent_project_item(row) ==
    [id |-> row.id,
     name |-> row.name,
     client_name |-> JoinedClientName(row),
     status |-> EnumStr(row.status),
     revenue_cents |-> row.revenue_cents,
     updated_at |-> row.updated_at]

(* The responses get_dashboard_stats may give. *)
get_dashboard_stats(uid) ==
    {IF \A i \in DOMAIN rows : RecentItemValid(rows[i])
     THEN Reply(200, "",
                [total_active_projects |-> TotalActiveProjects(uid),
                 total_revenue_cents |-> Max(0, TotalRevenueCents(uid)),
                 revenue_by_month |-> RevenueByMonth(uid),
                 recent_projects |-> [i \in DOMAIN rows |-> _build_recent_project_item(rows[i])]])
     ELSE InternalServerError(users, clients, projects, settings)
     : rows \in RecentRows(uid)}

----------------------------------------------------------------------------
(* Profile. *)
UserFields == {"full_name", "avatar_url"}
UserBody(f) == [k \in UserFields |-> IF k \in DOMAIN f THEN f[k] ELSE Absent]

(* HttpUrl accepts the value. *)
IsHttpUrl(s) == s \in {"http://a.io/x.png"}

UpdateUserProfileRequest(body) ==
    [valid |-> body.avatar_url \in {Absent, None} \/ IsHttpUrl(body.avatar_url[1]),
     full_name |-> IF body.full_name = Absent THEN None ELSE body.full_name,
     avatar_url |-> IF body.avatar_url = Absent THEN None ELSE body.avatar_url]

UserProfile(user) ==
    [id |-> user.id, email |-> user.email, full_name |-> user.full_name,
     avatar_url |-> user.avatar_url, is_active |-> user.is_active]

CurrentUser(uid) == CHOOSE u \in users : u.id = uid

get_me(uid) == Reply(200, "", UserProfile(CurrentUser(uid)))

update_me(uid, body) ==
    LET payload == UpdateUserProfileRequest(body) IN
    IF ~payload.valid THEN ValidationError
    ELSE LET current_user == CurrentUser(uid)
             saved == [current_user EXCEPT
                         !.full_name = SetNullableIfGiven(@, payload.full_name),
                         !.avatar_url = SetNullableIfGiven(@, payload.avatar_url)]
         IN Out(200, "", UserProfile(saved), (users \ {current_user}) \cup {saved},
                clients, projects, settings)

----------------------------------------------------------------------------
(* Theme settings. *)
ThemeName == {"light", "dark"}

(* str() of a member of the (str, Enum) class ThemeName. *)
ThemeStr(theme) == "ThemeName." \o theme

(* str.lower() on the values a theme column can hold. *)
Lower(t) ==
    CASE t = "ThemeName.light" -> "themename.light"
      [] t = "ThemeName.dark" -> "themename.dark"
      [] OTHER -> t

FindSettings(uid) == {r \in settings : r.user_id = uid}

get_theme(uid) ==
    LET found == FindSettings(uid)
        stored == IF found # {} /\ (CHOOSE r \in found : TRUE).theme \notin {None, Some("")}
                  THEN Lower((CHOOSE r \in found : TRUE).theme[1]) ELSE "light"
        theme == IF stored \notin {"light", "dark"} THEN "light" ELSE stored
    IN Reply(200, "", [theme |-> theme])

update_theme(uid, body) ==
    IF body.theme \in {Absent, None} \/ body.theme[1] \notin ThemeName THEN ValidationError
    ELSE LET found == FindSettings(uid)
             settings_row ==
                 IF found = {}
                 THEN [user_id |-> uid, theme |-> Some(ThemeStr(body.theme[1])),
                       created_at |-> now, updated_at |-> now]
                 ELSE [(CHOOSE r \in found : TRUE) EXCEPT
                          !.theme = Some(ThemeStr(body.theme[1])), !.updated_at = now]
         IN Out(200, "", [theme |-> body.theme[1]], users, clients, projects,
                (settings \ found) \cup {settings_row})

----------------------------------------------------------------------------
(* Sign-up and log-in. *)
MinPasswordLength == 8

(* EmailStr: the value is an email address; the validated value has the    *)
(* domain in lower case and the local part as written.                     *)
EmailInputs ==
    {"a@x.io", "A@x.io", "A@X.IO", "d@x.io", "D@x.io", "e@x.io", "not-an-email"}
EmailStrValid(s) == s \in EmailInputs \ {"not-an-email"}
EmailStr(s) == IF s = "A@X.IO" THEN "A@x.io" ELSE s

(* SQL lower() on the email addresses in use. *)
func_lower_CaseSensitive(s) == s

func_lower(s) ==
    CASE s \in {"A@x.io", "A@X.IO"} -> "a@x.io"
      [] s = "D@x.io" -> "d@x.io"
      [] OTHER -> s

hash_password(password) == <<"bcrypt", password>>
verify_password(plain_password, password_hash) == password_hash = hash_password(plain_password)

(* The token expires after the configured minutes, later than any request  *)
(* of the same tick.                                                       *)
create_access_token(subject) == Token("signed", now + 1, Some(subject))

TokenResponse(token) == [access_token |-> token, token_type |-> "bearer"]

SignupBody(email, password, full_name) ==
    [email |-> email, password |-> password, full_name |-> full_name]

SignupRequest(body) ==
    [valid |-> EmailStrValid(body.email) /\ Len(body.password) >= MinPasswordLength,
     email |-> EmailStr(body.email),
     password |-> body.password,
     full_name |-> body.full_name]

signup(body) ==
    LET payload == SignupRequest(body) IN
    IF ~payload.valid THEN ValidationError
    ELSE LET existing == {u \in users : func_lower(u.email) = func_lower(payload.email)} IN
         IF existing # {} THEN HTTPException(409, "Email already registered")
         ELSE LET user == [id |-> FreshId(SignupIds, {u.id : u \in users}),
                           email |-> payload.email,
                           password_hash |-> hash_password(payload.password),
                           full_name |-> payload.full_name,
                           avatar_url |-> None,
                           is_active |-> TRUE]
              IN Out(201, "", TokenResponse(create_access_token(user.id)),
                     users \cup {user}, clients, projects, settings)

LoginBody(email, password) == [email |-> email, password |-> password]

LoginRequest(body) == [valid |-> EmailStrValid(body.email),
                       email |-> EmailStr(body.email), password |-> body.password]

(* The responses login may give (one per row the lookup may return). *)
login(body) ==
    LET payload == LoginRequest(body) IN
    IF ~payload.valid THEN {ValidationError}
    ELSE LET found == {u \in users : func_lower(u.email) = func_lower(payload.email)} IN
         IF found = {} THEN {HTTPException(401, "Invalid email or password")}
         ELSE {IF ~user.is_active \/ ~verify_password(payload.password, user.password_hash)
               THEN HTTPException(401, "Invalid email or password")
               ELSE Reply(200, "", TokenResponse(create_access_token(user.id)))
               : user \in found}

----------------------------------------------------------------------------
(* The HTTP surface: a request to a router that is not mounted is answered *)
(* 404 by the framework; otherwise the bearer dependency runs first, then  *)
(* the handler, whose possible outcomes for the authenticated user are     *)
(* handled.                                                                *)
AuthUser(creds) == get_current_user(creds).user

Serve(router, creds, handled) ==
    IF router \notin IncludedRouters THEN {HTTPException(404, "Not Found")}
    ELSE LET auth == get_current_user(creds) IN
         IF ~auth.ok THEN {Unauthorized(auth.detail)} ELSE handled

(* A route without the bearer dependency. *)
ServePublic(router, handled) ==
    IF router \notin IncludedRouters THEN {HTTPException(404, "Not Found")} ELSE handled

Req(op, creds, id, body) == [op |-> op, creds |-> creds, id |-> id, body |-> body]
NoReq == Req("none", None, None, None)
NoResp == [status |-> 0, detail |-> "", body |-> None]

(* The workers that handle requests side by side, and what each holds:    *)
(* its place in the request (pc), the request, the session get_db gave it *)
(* ("none", "open", "closed") and how often that session was closed, the  *)
(* row the session loaded and the row as the handler edited it, and the   *)
(* response.                                                              *)
Workers == {"w1", "w2"}

Unit(pc, r, session, closes, loaded, edited, answer) ==
    [pc |-> pc, req |-> r, session |-> session, closes |-> closes,
     loaded |-> loaded, edited |-> edited, answer |-> answer]

IdleUnit == Unit("idle", NoReq, "none", 0, None, None, NoResp)

(* One request, received and answered with no other request in between. *)
Request(r, outcomes) ==
    \E o \in outcomes :
        /\ req' = r
        /\ resp' = [status |-> o.status, detail |-> o.detail, body |-> o.body]
        /\ users' = o.users
        /\ clients' = o.clients
        /\ projects' = o.projects
        /\ settings' = o.settings
        /\ UNCHANGED <<now, updated_at_default, inflight>>

----------------------------------------------------------------------------
(* The endpoints, one action each. *)
GetMe(creds) ==
    Request(Req("get_me", creds, None, None),
            Serve("user", creds, {get_me(AuthUser(creds))}))

UpdateMe(creds, body) ==
    Request(Req("update_me", creds, None, body),
            Serve("user", creds, {update_me(AuthUser(creds), body)}))

ListClients(creds, limit, offset) ==
    Request(Req("list_clients", creds, None, [limit |-> limit, offset |-> offset]),
            Serve("clients", creds, list_clients(AuthUser(creds), limit, offset)))

GetClient(creds, id) ==
    Request(Req("get_client", creds, Some(id), None),
            Serve("clients", creds, {get_client(AuthUser(creds), id)}))

CreateClient(creds, body) ==
    Request(Req("create_client", creds, None, body),
            Serve("clients", creds, {create_client(AuthUser(creds), body)}))

UpdateClient(creds, id, body) ==
    Request(Req("update_client", creds, Some(id), body),
            Serve("clients", creds, {update_client(AuthUser(creds), id, body)}))

DeleteClient(creds, id) ==
    Request(Req("delete_client", creds, Some(id), None),
            Serve("clients", creds, {delete_client(AuthUser(creds), id)}))

ExportProjectsCsv(creds) ==
    Request(Req("export_projects_csv", creds, None, None),
            Serve("projects", creds, export_projects_csv(AuthUser(creds))))

ListProjects(creds, status_filter, client_id, limit, offset) ==
    Request(Req("list_projects", creds, None,
                [status |-> status_filter, client_id |-> client_id,
                 limit |-> limit, offset |-> offset]),
            Serve("projects", creds,
                  list_projects(AuthUser(creds), status_filter, client_id, limit, offset)))

GetProject(creds, id) ==
    Request(Req("get_project", creds, Some(id), None),
            Serve("projects", creds, {get_project(AuthUser(creds), id)}))

CreateProject(creds, body) ==
    Request(Req("create_project", creds, None, body),
            Serve("projects", creds, {create_project(AuthUser(creds), body)}))

UpdateProject(creds, id, body) ==
    Request(Req("update_project", creds, Some(id), body),
            Serve("projects", creds, {update_project(AuthUser(creds), id, body)}))

DeleteProject(creds, id) ==
    Request(Req("delete_project", creds, Some(id), None),
            Serve("projects", creds, {delete_project(AuthUser(creds), id)}))

GetDashboardStats(creds) ==
    Request(Req("get_dashboard_stats", creds, None, None),
            Serve("dashboard", creds, get_dashboard_stats(AuthUser(creds))))

GetTheme(creds) ==
    Request(Req("get_theme", creds, None, None),
            Serve("settings", creds, {get_theme(AuthUser(creds))}))

UpdateTheme(creds, body) ==
    Request(Req("update_theme", creds, None, body),
            Serve("settings", creds, {update_theme(AuthUser(creds), body)}))

Signup(body) ==
    Request(Req("signup", None, None, body), ServePublic("auth", {signup(body)}))

Login(body) ==
    Request(Req("login", None, None, body), ServePublic("auth", login(body)))

(* Time passes between requests. *)
AdvanceClock(t) ==
    /\ t > now
    /\ now' = t
    /\ UNCHANGED <<users, clients, projects, settings, updated_at_default, req, resp, inflight>>

----------------------------------------------------------------------------
(* The database after deployment: three accounts (u3 deactivated), no      *)
(* clients, projects or settings.                                          *)
UserRow(id, email, is_active) ==
    [id |-> id, email |-> email, password_hash |-> hash_password("password-1"),
     full_name |-> None, avatar_url |-> None, is_active |-> is_active]

Deployed ==
    /\ users = {UserRow("u1", "a@x.io", TRUE), UserRow("u2", "b@x.io", TRUE),
                UserRow("u3", "c@x.io", FALSE)}
    /\ clients = {}
    /\ projects = {}
    /\ settings = {}
    /\ updated_at_default \in {"null", "now"}
    /\ req = NoReq
    /\ resp = NoResp
    /\ inflight = [w \in Workers |-> IdleUnit]

Init == Deployed /\ now = 0

(* Requests of the owner-scoped CRUD specification: the clock stands at   *)
(* tick 0 and both active users send requests with their tokens.          *)
CrudProjectIds == {ProjectIds[i] : i \in 1 .. MaxProjects} \cup {NeverIssuedId}
CrudClientIds == {ClientIds[i] : i \in 1 .. MaxClients} \cup {NeverIssuedId}

CrudProjectCreateBodies == { ProjectBody([name |-> Some("Site")]) }
CrudProjectUpdateBodies == { ProjectBody([client_id |-> Some("c1")]) }

CrudClientCreateBodies == { ClientBody([name |-> Some("Acme")]) }
CrudClientUpdateBodies == { ClientBody([name |-> Some("Beta")]) }

Next ==
    \/ \E creds \in GoodCredentials : ListClients(creds, DefaultPageSize, 0)
    \/ \E creds \in GoodCredentials, id \in CrudClientIds : GetClient(creds, id)
    \/ /\ Cardinality(clients) < MaxClients
       /\ \E creds \in GoodCredentials, body \in CrudClientCreateBodies :
             CreateClient(creds, body)
    \/ \E creds \in GoodCredentials, id \in CrudClientIds, body \in CrudClientUpdateBodies :
          UpdateClient(creds, id, body)
    \/ \E creds \in GoodCredentials, id \in CrudClientIds : DeleteClient(creds, id)
    \/ \E creds \in GoodCredentials : ExportProjectsCsv(creds)
    \/ \E creds \in GoodCredentials : ListProjects(creds, None, None, DefaultPageSize, 0)
    \/ \E creds \in GoodCredentials, id \in CrudProjectIds : GetProject(creds, id)
    \/ /\ Cardinality(projects) < MaxProjects
       /\ \E creds \in GoodCredentials, body \in CrudProjectCreateBodies :
             CreateProject(creds, body)
    \/ \E creds \in GoodCredentials, id \in CrudProjectIds, body \in CrudProjectUpdateBodies :
          UpdateProject(creds, id, body)
    \/ \E creds \in GoodCredentials, id \in CrudProjectIds : DeleteProject(creds, id)
    \/ \E creds \in GoodCredentials : GetDashboardStats(creds)

Spec == Init /\ [][Next]_vars

----------------------------------------------------------------------------
(* Reading the last request and response. *)
Caller(r) == get_current_user(r.creds)
Succeeded(s) == s.status \in {200, 201, 204}

ProjectIdsReturned(r, s) ==
    IF ~Succeeded(s) THEN {}
    ELSE CASE r.op \in {"get_project", "create_project", "update_project"} -> {s.body.id}
           [] r.op \in {"list_projects", "export_projects_csv"} ->
                 {s.body[i].id : i \in DOMAIN s.body}
           [] r.op = "get_dashboard_stats" ->
                 {s.body.recent_projects[i].id : i \in DOMAIN s.body.recent_projects}
           [] OTHER -> {}

ClientIdsReturned(r, s) ==
    IF ~Succeeded(s) THEN {}
    ELSE CASE r.op \in {"get_client", "create_client", "update_client"} -> {s.body.id}
           [] r.op = "list_clients" -> {s.body[i].id : i \in DOMAIN s.body}
           [] OTHER -> {}

(* Rows that a step changed, added or removed. *)
Touched(before, after) == (before \ after) \cup (after \ before)

(* C1: every Client or Project a request of user A returns, changes or     *)
(* removes is owned by A; nothing owned by another user is returned to A   *)
(* or touched by A's request.                                              *)
C1_OwnerIsolation ==
    [][ (now' = now /\ Caller(req').ok) =>
          LET a == Caller(req').user IN
          /\ \A p \in projects \cup projects' :
                p.id \in ProjectIdsReturned(req', resp') => p.owner_user_id = a
          /\ \A c \in clients \cup clients' :
                c.id \in ClientIdsReturned(req', resp') => c.owner_user_id = a
          /\ \A p \in Touched(projects, projects') : p.owner_user_id = a
          /\ \A c \in Touched(clients, clients') : c.owner_user_id = a ]_vars

(* Both users own a project and the last list, export or dashboard request *)
(* of u1 returned a project.                                               *)
C1_Witness ==
    /\ \E p \in projects : p.owner_user_id = "u1"
    /\ \E p \in projects : p.owner_user_id = "u2"
    /\ req.op \in {"list_projects", "export_projects_csv", "get_dashboard_stats"}
    /\ Caller(req).ok /\ Caller(req).user = "u1"
    /\ ProjectIdsReturned(req, resp) # {}

(* C2: get, update and delete of a Client or Project owned by another user *)
(* have the very outcome they have for an id that no row has: 404, and     *)
(* nothing committed.                                                      *)
C2_NotFoundIndistinguishable ==
    \A a \in ActiveUserIds :
        /\ \A p \in projects : p.owner_user_id # a =>
              /\ get_project(a, p.id) = get_project(a, NeverIssuedId)
              /\ get_project(a, p.id) = HTTPException(404, "Project not found")
              /\ delete_project(a, p.id) = delete_project(a, NeverIssuedId)
              /\ delete_project(a, p.id) = HTTPException(404, "Project not found")
              /\ \A body \in CrudProjectUpdateBodies :
                    /\ update_project(a, p.id, body) = update_project(a, NeverIssuedId, body)
                    /\ update_project(a, p.id, body) = HTTPException(404, "Project not found")
        /\ \A c \in clients : c.owner_user_id # a =>
              /\ get_client(a, c.id) = get_client(a, NeverIssuedId)
              /\ get_client(a, c.id) = HTTPException(404, "Client not found")
              /\ delete_client(a, c.id) = delete_client(a, NeverIssuedId)
              /\ delete_client(a, c.id) = HTTPException(404, "Client not found")
              /\ \A body \in CrudClientUpdateBodies :
                    /\ update_client(a, c.id, body) = update_client(a, NeverIssuedId, body)
                    /\ update_client(a, c.id, body) = HTTPException(404, "Client not found")

(* The last request was a delete of a client owned by another user, and it *)
(* was answered 404 while the client is still stored.                      *)
C2_Witness ==
    /\ req.op = "delete_client"
    /\ Caller(req).ok
    /\ \E c \in clients : req.id = Some(c.id) /\ c.owner_user_id # Caller(req).user
    /\ resp.status = 404

----------------------------------------------------------------------------
(* The authentication specification: every endpoint that declares the      *)
(* bearer dependency, called with every kind of credential.                *)
NextAuth ==
    \/ \E creds \in Credentials : GetMe(creds)
    \/ \E creds \in Credentials : UpdateMe(creds, UserBody([full_name |-> Some("Ann")]))
    \/ \E creds \in Credentials : ListClients(creds, DefaultPageSize, 0)
    \/ \E creds \in Credentials : GetClient(creds, "c1")
    \/ /\ Cardinality(clients) < AuthMaxRows
       /\ \E creds \in Credentials : CreateClient(creds, ClientBody([name |-> Some("Acme")]))
    \/ \E creds \in Credentials : UpdateClient(creds, "c1", ClientBody([name |-> Some("Beta")]))
    \/ \E creds \in Credentials : DeleteClient(creds, "c1")
    \/ \E creds \in Credentials : ExportProjectsCsv(creds)
    \/ \E creds \in Credentials : ListProjects(creds, None, None, DefaultPageSize, 0)
    \/ \E creds \in Credentials : GetProject(creds, "p1")
    \/ /\ Cardinality(projects) < AuthMaxRows
       /\ \E creds \in Credentials : CreateProject(creds, ProjectBody([name |-> Some("Site")]))
    \/ \E creds \in Credentials :
          UpdateProject(creds, "p1", ProjectBody([status |-> Some("paused")]))
    \/ \E creds \in Credentials : DeleteProject(creds, "p1")
    \/ \E creds \in Credentials : GetDashboardStats(creds)
    \/ \E creds \in Credentials : GetTheme(creds)
    \/ \E creds \in Credentials : UpdateTheme(creds, [theme |-> Some("dark")])

SpecAuth == Init /\ [][NextAuth]_vars

ProtectedOps ==
    {"get_me", "update_me", "list_clients", "get_client", "create_client",
     "update_client", "delete_client", "export_projects_csv", "list_projects",
     "get_project", "create_project", "update_project", "delete_project",
     "get_dashboard_stats", "get_theme", "update_theme"}
ThemeOps == {"get_theme", "update_theme"}

(* C3: a protected request (profile, clients, projects, CSV export,        *)
(* dashboard stats, theme) whose credential is missing, empty, undecodable,*)
(* expired, without subject, with a non-UUID subject, or of an unknown or  *)
(* inactive user is answered 401 and the stored rows are unchanged.        *)
C3_UnauthenticatedRejected ==
    [][ (now' = now /\ req'.creds \in BadCredentials /\ req'.op \in ProtectedOps) =>
          (resp'.status = 401 /\ UNCHANGED store) ]_vars

(* C3, for the endpoints whose router the application mounts. *)
C3_MountedRejected ==
    [][ (now' = now /\ req'.creds \in BadCredentials /\ req'.op \in ProtectedOps \ ThemeOps) =>
          (resp'.status = 401 /\ UNCHANGED store) ]_vars

(* A delete request carrying the token of the deactivated user was         *)
(* answered 401 while the project it names is stored.                      *)
C3_MountedWitness ==
    /\ req.op = "delete_project"
    /\ req.creds = Some(Token("signed", now + 1, Some("u3")))
    /\ resp.status = 401
    /\ \E p \in projects : req.id = Some(p.id)

----------------------------------------------------------------------------
(* The partial-update specification: clients and projects are created with *)
(* their optional fields set, then updated with bodies that carry some     *)
(* fields, some of them null, while time passes.                           *)
UpdProjectCreateBodies ==
    { ProjectBody([name |-> Some("Site"), client_id |-> Some("c1"),
                   description |-> Some("d"), start_date |-> Some("2024-01-05")]) }

UpdProjectUpdateBodies ==
    { ProjectBody(<<>>),
      ProjectBody([client_id |-> None]),
      ProjectBody([description |-> None]),
      ProjectBody([description |-> Some("e"), due_date |-> Some("2024-02-01")]),
      ProjectBody([name |-> Some("Shop"), revenue_cents |-> Some(200)]),
      ProjectBody([client_id |-> Some("c2")]),
      ProjectBody([status |-> Some("paused"), budget_cents |-> Some(50)]),
      ProjectBody([name |-> None, start_date |-> None]) }

UpdClientCreateBodies == { ClientBody([name |-> Some("Acme"), notes |-> Some("n")]) }

UpdClientUpdateBodies ==
    { ClientBody([name |-> Some("Beta")]),
      ClientBody([notes |-> None]),
      ClientBody([email |-> Some("a@x.io"), phone |-> Some("555")]),
      ClientBody([company |-> Some("Acme Ltd"), notes |-> Some("m")]) }

NextUpdate ==
    \/ \E t \in 0 .. MaxTick : AdvanceClock(t)
    \/ /\ Cardinality(clients) < UpdMaxClients
       /\ \E body \in UpdClientCreateBodies : CreateClient(ValidToken("u1"), body)
    \/ /\ Cardinality(projects) < UpdMaxProjects
       /\ \E body \in UpdProjectCreateBodies : CreateProject(ValidToken("u1"), body)
    \/ \E creds \in GoodCredentials, body \in UpdProjectUpdateBodies :
          UpdateProject(creds, "p1", body)
    \/ \E creds \in GoodCredentials, body \in UpdClientUpdateBodies :
          UpdateClient(creds, "c1", body)

SpecUpdate == Init /\ [][NextUpdate]_vars

(* What a body field asks a column to become: a nullable column takes the  *)
(* value or null, another column takes the value.                          *)
Requested(body, f, nullable) == IF f \in nullable THEN body[f] ELSE body[f][1]

ExactlyBodyApplied(before, after, body, fields, nullable) ==
    /\ \A f \in fields :
          IF body[f] = Absent THEN after[f] = before[f]
          ELSE (f \in nullable \/ body[f] # None) => after[f] = Requested(body, f, nullable)
    /\ after.id = before.id
    /\ after.owner_user_id = before.owner_user_id
    /\ after.created_at = before.created_at

NullableClientFields == {"email", "phone", "company", "notes"}

(* C4: a successful update of a Project or Client sets exactly the fields  *)
(* present in the request to the values it carries, null included, and     *)
(* leaves the absent fields, the id, the owner and the creation timestamp  *)
(* unchanged.                                                              *)
C4_PartialUpdateExact ==
    [][ (now' = now /\ resp'.status = 200) =>
          /\ req'.op = "update_project" =>
                \E p \in projects, q \in projects' :
                    /\ p.id = req'.id[1] /\ q.id = p.id
                    /\ ExactlyBodyApplied(p, q, req'.body, ProjectFields, NullableProjectFields)
          /\ req'.op = "update_client" =>
                \E c \in clients, d \in clients' :
                    /\ c.id = req'.id[1] /\ d.id = c.id
                    /\ ExactlyBodyApplied(c, d, req'.body, ClientFields, NullableClientFields) ]_vars

(* C4 without the null case: a field present with a non-null value is set  *)
(* to it, and a field that is absent or null keeps its value.              *)
AppliedUnlessNull(before, after, body, fields, nullable) ==
    /\ \A f \in fields :
          IF body[f] \in {Absent, None} THEN after[f] = before[f]
          ELSE after[f] = Requested(body, f, nullable)
    /\ after.id = before.id
    /\ after.owner_user_id = before.owner_user_id
    /\ after.created_at = before.created_at

C4_NonNullFieldsApplied ==
    [][ (now' = now /\ resp'.status = 200) =>
          /\ req'.op = "update_project" =>
                \E p \in projects, q \in projects' :
                    /\ p.id = req'.id[1] /\ q.id = p.id
                    /\ AppliedUnlessNull(p, q, req'.body, ProjectFields, NullableProjectFields)
          /\ req'.op = "update_client" =>
                \E c \in clients, d \in clients' :
                    /\ c.id = req'.id[1] /\ d.id = c.id
                    /\ AppliedUnlessNull(c, d, req'.body, ClientFields, NullableClientFields) ]_vars

----------------------------------------------------------------------------
(* The client-delete specification: both users create clients, create      *)
(* projects with and without a client, link projects, and delete clients.  *)
CascClientIds == {ClientIds[i] : i \in 1 .. CascMaxClients}
CascProjectIds == {ProjectIds[i] : i \in 1 .. CascMaxProjects}

CascProjectCreateBodies ==
    { ProjectBody([name |-> Some("Site")]) }
    \cup {ProjectBody([name |-> Some("App"), client_id |-> Some(c)]) : c \in CascClientIds}

NextCascade ==
    \/ /\ Cardinality(clients) < CascMaxClients
       /\ \E creds \in GoodCredentials : CreateClient(creds, ClientBody([name |-> Some("Acme")]))
    \/ /\ Cardinality(projects) < CascMaxProjects
       /\ \E creds \in GoodCredentials, body \in CascProjectCreateBodies :
             CreateProject(creds, body)
    \/ \E creds \in GoodCredentials, id \in CascProjectIds, c \in CascClientIds :
          UpdateProject(creds, id, ProjectBody([client_id |-> Some(c)]))
    \/ \E creds \in GoodCredentials, id \in CascClientIds : DeleteClient(creds, id)
    \/ \E creds \in GoodCredentials, id \in CascProjectIds : DeleteProject(creds, id)

SpecCascade == Init /\ [][NextCascade]_vars

(* C5: deleting a Client removes that Client only; every Project is still  *)
(* stored afterwards, with client_id null if it referenced the Client and  *)
(* every other field as before, so the owner's Project ids are the same.   *)
C5_DeleteClientKeepsProjects ==
    \A c \in clients :
        LET o == delete_client(c.owner_user_id, c.id) IN
        /\ o.status = 204
        /\ o.clients = clients \ {c}
        /\ Cardinality(o.projects) = Cardinality(projects)
        /\ \A u \in UserIds :
              {q.id : q \in {x \in o.projects : x.owner_user_id = u}}
                 = {p.id : p \in {x \in projects : x.owner_user_id = u}}
        /\ \A p \in projects :
              \E q \in o.projects :
                  /\ q.id = p.id
                  /\ q.client_id = IF p.client_id = Some(c.id) THEN None ELSE p.client_id
                  /\ [q EXCEPT !.client_id = p.client_id] = p

(* A client was deleted while another client stays stored, and a project   *)
(* created with a client now has none, while another project keeps its     *)
(* client.                                                                 *)
C5_Witness ==
    /\ req.op = "delete_client" /\ resp.status = 204
    /\ clients # {}
    /\ \E p \in projects : p.name = "App" /\ p.client_id = None
    /\ \E p \in projects : p.client_id # None

----------------------------------------------------------------------------
(* The statistics specification: both users create projects of different   *)
(* status and revenue, change revenue and status, delete projects, and     *)
(* read the dashboard.                                                     *)
StatProjectIds == {ProjectIds[i] : i \in 1 .. StatMaxProjects}

StatProjectCreateBodies ==
    { ProjectBody([name |-> Some("Site"), revenue_cents |-> Some(100)]),
      ProjectBody([name |-> Some("Site"), status |-> Some("paused"), revenue_cents |-> Some(30)]) }

StatProjectUpdateBodies ==
    { ProjectBody([revenue_cents |-> Some(7)]),
      ProjectBody([status |-> Some("completed")]) }

NextStats ==
    \/ /\ Cardinality(projects) < StatMaxProjects
       /\ \E creds \in GoodCredentials, body \in StatProjectCreateBodies :
             CreateProject(creds, body)
    \/ \E creds \in GoodCredentials, id \in StatProjectIds, body \in StatProjectUpdateBodies :
          UpdateProject(creds, id, body)
    \/ \E creds \in GoodCredentials, id \in StatProjectIds : DeleteProject(creds, id)
    \/ \E creds \in GoodCredentials : GetDashboardStats(creds)

SpecStats == Init /\ [][NextStats]_vars

(* C6: whenever dashboard stats answers user U, total_active_projects is   *)
(* the number of Projects whose owner is U and whose status is active;     *)
(* Projects of other users and Projects of U that are completed, paused or *)
(* cancelled are not counted.                                              *)
C6_TotalActiveProjects ==
    \A u \in ActiveUserIds :
        LET counted == {p \in projects : p.owner_user_id = u /\ p.status = "active"} IN
        /\ TotalActiveProjects(u) = Cardinality(counted)
        /\ \A o \in get_dashboard_stats(u) :
              o.status = 200 => o.body.total_active_projects = Cardinality(counted)
        /\ (req.op = "get_dashboard_stats" /\ resp.status = 200 /\ Caller(req).user = u)
              => resp.body.total_active_projects = Cardinality(counted)

(* The dashboard answered a user who owns an active and a non-active       *)
(* Project while the other user owns an active Project: the count is 1.   *)
C6_Witness ==
    /\ req.op = "get_dashboard_stats" /\ resp.status = 200
    /\ resp.body.total_active_projects = 1
    /\ \E p \in projects : p.owner_user_id = Caller(req).user /\ p.status = "active"
    /\ \E p \in projects : p.owner_user_id = Caller(req).user /\ p.status # "active"
    /\ \E p \in projects : p.owner_user_id # Caller(req).user /\ p.status = "active"

(* The revenue of the Projects of user u among the first n identifiers,    *)
(* added identifier by identifier.                                         *)
RECURSIVE RevenueOfIds(_, _)
RevenueOfIds(u, n) ==
    IF n = 0 THEN 0
    ELSE RevenueOfIds(u, n - 1)
         + (IF \E p \in projects : p.id = ProjectIds[n] /\ p.owner_user_id = u
            THEN (CHOOSE p \in projects : p.id = ProjectIds[n]).revenue_cents
            ELSE 0)

(* C7: whenever dashboard stats answers user U, total_revenue_cents is the *)
(* sum of revenue_cents over all Projects owned by U whatever their        *)
(* status, it is 0 when U owns no Project, and it is never negative.       *)
C7_TotalRevenueCents ==
    \A u \in ActiveUserIds :
        LET total == RevenueOfIds(u, Len(ProjectIds)) IN
        \A o \in get_dashboard_stats(u) \cup
                  (IF req.op = "get_dashboard_stats" /\ Caller(req).user = u
                   THEN {resp} ELSE {}) :
            o.status = 200 =>
               /\ o.body.total_revenue_cents = total
               /\ o.body.total_revenue_cents >= 0
               /\ ((\A p \in projects : p.owner_user_id # u)
                     => o.body.total_revenue_cents = 0)

(* The dashboard answered a user who owns an active Project of revenue 7   *)
(* and a paused Project of revenue 30 with the total 37, while the other   *)
(* user owns a Project with revenue too.                                   *)
C7_Witness ==
    /\ req.op = "get_dashboard_stats" /\ resp.status = 200
    /\ resp.body.total_revenue_cents = 37
    /\ \E p \in projects :
          p.owner_user_id = Caller(req).user /\ p.status = "active" /\ p.revenue_cents = 7
    /\ \E p \in projects :
          p.owner_user_id = Caller(req).user /\ p.status = "paused" /\ p.revenue_cents = 30
    /\ \E p \in projects : p.owner_user_id # Caller(req).user /\ p.revenue_cents > 0

----------------------------------------------------------------------------
(* The month-label specification: the service is deployed at any instant   *)
(* of a span of years, time passes tick by tick, and users read the        *)
(* dashboard.                                                              *)
InitLabels == Deployed /\ now \in 0 .. LabelMaxTick

NextLabels ==
    \/ now < LabelMaxTick /\ AdvanceClock(now + 1)
    \/ \E creds \in GoodCredentials : GetDashboardStats(creds)

SpecLabels == InitLabels /\ [][NextLabels]_vars

(* Reading a label back: its digits, its year and month, and the number of *)
(* its calendar month counted from year 0.                                 *)
IsDigit(c) == \E d \in 0 .. 9 : Digit[d + 1] = c
DigitValue(c) == CHOOSE d \in 0 .. 9 : Digit[d + 1] = c
LabelWellFormed(l) ==
    /\ Len(l) = 7
    /\ l[5] = "-"
    /\ \A i \in {1, 2, 3, 4, 6, 7} : IsDigit(l[i])
LabelYear(l) ==
    1000 * DigitValue(l[1]) + 100 * DigitValue(l[2]) + 10 * DigitValue(l[3]) + DigitValue(l[4])
LabelMonth(l) == 10 * DigitValue(l[6]) + DigitValue(l[7])
LabelMonthNumber(l) == 12 * LabelYear(l) + (LabelMonth(l) - 1)

(* C8: for the current year y and month m, the labels are 12 distinct      *)
(* consecutive calendar months, oldest first, ending with the month of     *)
(* now; each is written YYYY-MM with a month in 01..12; a label whose      *)
(* month would be at or before 0 lies in the previous year, so January     *)
(* gives February of the year before through January of this year; the     *)
(* dashboard answers with these labels.                                    *)
LabelsRight ==
    LET y == YearOf(now)
        m == MonthOf(now)
        labels == _month_labels_last_12_months(y, m)
    IN /\ m \in 1 .. 12
       /\ Len(labels) = 12
       /\ \A k \in 1 .. 12 : LabelWellFormed(labels[k]) /\ LabelMonth(labels[k]) \in 1 .. 12
       /\ \A j, k \in 1 .. 12 : j # k => labels[j] # labels[k]
       /\ \A k \in 1 .. 11 :
             LabelMonthNumber(labels[k + 1]) = LabelMonthNumber(labels[k]) + 1
       /\ LabelYear(labels[12]) = y /\ LabelMonth(labels[12]) = m
       /\ \A k \in 1 .. 12 :
             m - (12 - k) <= 0 =>
                /\ LabelYear(labels[k]) = y - 1
                /\ LabelMonth(labels[k]) = m - (12 - k) + 12
       /\ m = 1 => /\ LabelYear(labels[1]) = y - 1 /\ LabelMonth(labels[1]) = 2
                   /\ LabelYear(labels[11]) = y - 1 /\ LabelMonth(labels[11]) = 12

AnsweredWithLabels ==
    (req.op = "get_dashboard_stats" /\ resp.status = 200) =>
        /\ Len(resp.body.revenue_by_month) = 12
        /\ \A k \in 1 .. 12 :
              resp.body.revenue_by_month[k].month
                 = _month_labels_last_12_months(YearOf(now), MonthOf(now))[k]

C8_MonthLabels ==
    /\ []LabelsRight
    /\ [][<<req, resp>>' # <<req, resp>> => AnsweredWithLabels']_vars

(* In January 2025 the dashboard answered with the labels 2024-02 through  *)
(* 2025-01.                                                                *)
C8_Witness ==
    /\ YearOf(now) = 2025 /\ MonthOf(now) = 1
    /\ req.op = "get_dashboard_stats" /\ resp.status = 200
    /\ resp.body.revenue_by_month[1].month = <<"2", "0", "2", "4", "-", "0", "2">>
    /\ resp.body.revenue_by_month[11].month = <<"2", "0", "2", "4", "-", "1", "2">>
    /\ resp.body.revenue_by_month[12].month = <<"2", "0", "2", "5", "-", "0", "1">>

----------------------------------------------------------------------------
(* The monthly-revenue specification: both users create projects in        *)
(* different months, change their revenue in later months, delete them,    *)
(* and read the dashboard.                                                 *)
BucketProjectIds == {ProjectIds[i] : i \in 1 .. BucketMaxProjects}

(* Requests arrive in December 2023, January 2024 and December 2024. *)
BucketClock == {k * TicksPerMonth : k \in {0, 1, MonthsShown}}

BucketProjectCreateBodies ==
    { ProjectBody([name |-> Some("Site"), revenue_cents |-> Some(100)]),
      ProjectBody([name |-> Some("Site"), revenue_cents |-> Some(30)]) }

NextBuckets ==
    \/ \E t \in BucketClock : AdvanceClock(t)
    \/ /\ Cardinality(projects) < BucketMaxProjects
       /\ \E creds \in GoodCredentials, body \in BucketProjectCreateBodies :
             CreateProject(creds, body)
    \/ \E creds \in GoodCredentials, id \in BucketProjectIds :
          UpdateProject(creds, id, ProjectBody([revenue_cents |-> Some(7)]))
    \/ \E creds \in GoodCredentials, id \in BucketProjectIds : DeleteProject(creds, id)
    \/ \E creds \in GoodCredentials : GetDashboardStats(creds)

SpecBuckets == Init /\ [][NextBuckets]_vars

(* The current revenue of the Projects of user u, among the first n        *)
(* identifiers, that were created in calendar month number mi.             *)
RECURSIVE RevenueCreatedIn(_, _, _)
RevenueCreatedIn(u, mi, n) ==
    IF n = 0 THEN 0
    ELSE RevenueCreatedIn(u, mi, n - 1)
         + (IF \E p \in projects : /\ p.id = ProjectIds[n] /\ p.owner_user_id = u
                                     /\ MonthIndex(p.created_at) = mi
            THEN (CHOOSE p \in projects : p.id = ProjectIds[n]).revenue_cents
            ELSE 0)

BucketsRight ==
    \A u \in ActiveUserIds :
        \A buckets \in {RevenueByMonth(u)}
                       \cup {o.body.revenue_by_month :
                                o \in {x \in get_dashboard_stats(u) : x.status = 200}} :
            /\ Len(buckets) = 12
            /\ \A k \in 1 .. 12 :
                  buckets[k].revenue_cents
                     = RevenueCreatedIn(u, MonthIndex(now) - (12 - k), Len(ProjectIds))

CreatedAtKept ==
    \A p \in projects, q \in projects' : q.id = p.id => q.created_at = p.created_at

(* C9: after any creates, updates and deletes, bucket k of the 12 holds    *)
(* the sum of the current revenue_cents of U's Projects created in that    *)
(* calendar month, 0 when there are none; no request changes a Project's   *)
(* creation timestamp, so a later update never moves its revenue to        *)
(* another bucket.                                                         *)
C9_RevenueByCreationMonth ==
    /\ []BucketsRight
    /\ [][CreatedAtKept]_vars

(* In January 2024 the dashboard answered a user whose Project created in  *)
(* December 2023 had its revenue changed to 7 in January 2024, and who     *)
(* created another Project of revenue 30 in January: the December bucket   *)
(* holds 7 and the January bucket 30.                                      *)
C9_Witness ==
    /\ req.op = "get_dashboard_stats" /\ resp.status = 200
    /\ MonthIndex(now) = EpochMonthIndex + 1
    /\ \E p \in projects :
          /\ p.owner_user_id = Caller(req).user
          /\ MonthIndex(p.created_at) = EpochMonthIndex
          /\ p.updated_at # None /\ MonthIndex(p.updated_at[1]) = EpochMonthIndex + 1
          /\ p.revenue_cents = 7
    /\ resp.body.revenue_by_month[11].revenue_cents = 7
    /\ resp.body.revenue_by_month[12].revenue_cents = 30

----------------------------------------------------------------------------
(* The recent-projects specification: one user creates more projects than  *)
(* the dashboard lists, the other user creates some too, the first        *)
(* projects are renamed at later ticks, and both read the dashboard; only  *)
(* a few writes are stamped with the same tick.                            *)
StampedNow == {p \in projects : RecencyTs(p) = now}

NextRecent ==
    \/ now < RecentMaxTick /\ AdvanceClock(now + 1)
    \/ /\ Cardinality(OwnedProjects("u1")) < RecentMaxProjects
       /\ Cardinality(StampedNow) < RecentMaxTies
       /\ CreateProject(ValidToken("u1"), ProjectBody([name |-> Some("Site")]))
    \/ /\ Cardinality(OwnedProjects("u2")) < RecentMaxOthers
       /\ Cardinality(StampedNow) < RecentMaxTies
       /\ CreateProject(ValidToken("u2"), ProjectBody([name |-> Some("Site")]))
    \/ /\ Cardinality(StampedNow) < RecentMaxTies
       /\ \E creds \in GoodCredentials, i \in 1 .. RecentMaxRenamed :
             UpdateProject(creds, ProjectIds[i], ProjectBody([name |-> Some("Shop")]))
    \/ \E creds \in GoodCredentials : GetDashboardStats(creds)

SpecRecent == Init /\ [][NextRecent]_vars

(* The key of a stored Project: its update timestamp if it has one, else   *)
(* its creation timestamp.                                                 *)
KeyOfId(id) ==
    LET p == CHOOSE x \in projects : x.id = id IN
    IF p.updated_at = None THEN p.created_at ELSE p.updated_at[1]

(* The lists of Project ids that the recent-projects query may give user u *)
(* and that the dashboard may answer u with.                               *)
RecentIdLists(u) ==
    {[i \in DOMAIN rows |-> rows[i].id] : rows \in RecentRows(u)}
    \cup {[i \in DOMAIN o.body.recent_projects |-> o.body.recent_projects[i].id] :
             o \in {x \in get_dashboard_stats(u) : x.status = 200}}

(* C10: recent_projects for user U has min(5, number of U's Projects)      *)
(* items, each a different Project of U, in descending order of the key,   *)
(* and no Project of U that is left out has a strictly greater key than    *)
(* one that is listed.                                                     *)
C10_RecentProjects ==
    \A u \in ActiveUserIds :
        LET owned == {p.id : p \in {x \in projects : x.owner_user_id = u}} IN
        \A ids \in RecentIdLists(u) :
            /\ Len(ids) = (IF Cardinality(owned) < 5 THEN Cardinality(owned) ELSE 5)
            /\ \A i \in DOMAIN ids : ids[i] \in owned
            /\ \A i, j \in DOMAIN ids : i < j =>
                  /\ ids[i] # ids[j]
                  /\ KeyOfId(ids[i]) >= KeyOfId(ids[j])
            /\ \A id \in owned :
                  (\A i \in DOMAIN ids : ids[i] # id) =>
                     \A i \in DOMAIN ids : KeyOfId(id) <= KeyOfId(ids[i])

(* The dashboard answered a user who owns six Projects, while the other    *)
(* user owns one, with five of them: the oldest Project, renamed at a      *)
(* later tick, comes before a Project created earlier than that, and the   *)
(* Project left out was never renamed after the clock moved.               *)
C10_Witness ==
    /\ req.op = "get_dashboard_stats" /\ resp.status = 200
    /\ Cardinality(OwnedProjects(Caller(req).user)) = 6
    /\ \E p \in projects : p.owner_user_id # Caller(req).user
    /\ Len(resp.body.recent_projects) = 5
    /\ resp.body.recent_projects[1].id = "p1"
    /\ KeyOfId("p1") > KeyOfId(resp.body.recent_projects[5].id)
    /\ \E p \in OwnedProjects(Caller(req).user) :
          /\ \A i \in 1 .. 5 : resp.body.recent_projects[i].id # p.id
          /\ RecencyTs(p) < KeyOfId("p1")

----------------------------------------------------------------------------
(* C11: each recent_projects item carries the Project's update timestamp   *)
(* when the Project has been updated and its creation timestamp when it    *)
(* has never been updated, and dashboard stats succeeds for a user who     *)
(* owns a never-updated Project.                                           *)
C11_RecentTimestamp ==
    \A u \in ActiveUserIds :
        \A o \in get_dashboard_stats(u) :
            /\ o.status = 200
            /\ \A i \in DOMAIN o.body.recent_projects :
                  LET item == o.body.recent_projects[i]
                      p == CHOOSE x \in projects : x.id = item.id
                  IN item.updated_at
                        = Some(IF p.updated_at # None THEN p.updated_at[1] ELSE p.created_at)

----------------------------------------------------------------------------
(* C12: for every user who owns no Project, whatever the other users own,  *)
(* dashboard stats answers without error: total_active_projects 0,         *)
(* total_revenue_cents 0, twelve revenue_by_month entries of revenue 0     *)
(* labelled with the twelve months ending with the current one, and an     *)
(* empty recent_projects list.                                             *)
C12_EmptyDashboard ==
    \A u \in ActiveUserIds :
        (\A p \in projects : p.owner_user_id # u) =>
            \A o \in get_dashboard_stats(u) :
                /\ o.status = 200
                /\ o.body.total_active_projects = 0
                /\ o.body.total_revenue_cents = 0
                /\ Len(o.body.revenue_by_month) = 12
                /\ \A k \in 1 .. 12 :
                      LET bucket == o.body.revenue_by_month[k] IN
                      /\ bucket.revenue_cents = 0
                      /\ LabelWellFormed(bucket.month)
                      /\ LabelMonthNumber(bucket.month) = MonthIndex(now) - (12 - k)
                /\ o.body.recent_projects = <<>>

(* In January 2024 the dashboard answered a user without Projects with     *)
(* zeros and an empty list while the other user owns an active Project     *)
(* with revenue.                                                           *)
C12_Witness ==
    /\ req.op = "get_dashboard_stats" /\ resp.status = 200
    /\ MonthIndex(now) = EpochMonthIndex + 1
    /\ \A p \in projects : p.owner_user_id # Caller(req).user
    /\ \E p \in projects : p.status = "active" /\ p.revenue_cents > 0
    /\ resp.body.total_active_projects = 0
    /\ resp.body.total_revenue_cents = 0
    /\ resp.body.recent_projects = <<>>
    /\ resp.body.revenue_by_month[12].month = <<"2", "0", "2", "4", "-", "0", "1">>
    /\ \A k \in 1 .. 12 : resp.body.revenue_by_month[k].revenue_cents = 0

----------------------------------------------------------------------------
(* The columns that the export and the list have in common. *)
ReadBack(row) ==
    [id |-> row.id, name |-> row.name, status |-> row.status,
     revenue_cents |-> row.revenue_cents]

(* C13: for every user, the data rows of the exported CSV, read back as    *)
(* (id, name, status, revenue_cents), are the same sequence as the user's  *)
(* Project list without filters, in creation-descending order: one row per *)
(* owned Project, none of another user, with the status and revenue the    *)
(* list returns.                                                           *)
C13_CsvRoundTrip ==
    \A u \in ActiveUserIds :
        \A csv \in export_projects_csv(u),
           listed \in list_projects(u, None, None, DefaultPageSize, 0) :
            /\ csv.status = 200 /\ listed.status = 200
            /\ Len(csv.body) = Cardinality({p \in projects : p.owner_user_id = u})
            /\ [i \in DOMAIN csv.body |-> ReadBack(csv.body[i])]
                  = [i \in DOMAIN listed.body |-> ReadBack(listed.body[i])]

----------------------------------------------------------------------------
(* The sign-up specification: visitors sign up with emails that differ     *)
(* from stored ones in letter case or not at all, or are new; they log in, *)
(* and stored active users read their profile with a token.                *)
SignupBodies ==
    {SignupBody(e, pw, None) : e \in EmailInputs, pw \in {"password-1", "short"}}

LoginBodies ==
    {LoginBody(e, pw) : e \in {"a@x.io", "D@x.io", "c@x.io"}, pw \in {"password-1", "short"}}

NextSignup ==
    \/ /\ Cardinality(users) < SignupMaxUsers
       /\ \E body \in SignupBodies : Signup(body)
    \/ \E body \in LoginBodies : Login(body)
    \/ \E u \in users : GetMe(ValidToken(u.id))

SpecSignup == Init /\ [][NextSignup]_vars

(* Two email addresses are equal when letter case is ignored. *)
EqualIgnoringCase(a, b) ==
    \/ a = b
    \/ \E class \in {{"a@x.io", "A@x.io", "A@X.IO"}, {"d@x.io", "D@x.io"}} :
          a \in class /\ b \in class

(* C14: a well-formed signup whose email equals, ignoring letter case, the *)
(* email of a stored user is rejected with 409, issues no token and leaves *)
(* the stored users as they are.                                           *)
C14_DuplicateSignupRejected ==
    \A body \in SignupBodies :
        (/\ SignupRequest(body).valid
         /\ \E u \in users : EqualIgnoringCase(u.email, body.email)) =>
            LET o == signup(body) IN
            /\ o.status = 409
            /\ o.body = None
            /\ o.users = users
            /\ <<o.clients, o.projects, o.settings>> = <<clients, projects, settings>>

(* A visitor signed up with d@x.io, and a later signup with D@x.io was     *)
(* answered 409 while the stored users are the ones before.                *)
C14_Witness ==
    /\ req.op = "signup" /\ resp.status = 409 /\ resp.body = None
    /\ req.body.email = "D@x.io"
    /\ \E u \in users : u.email = "d@x.io"
    /\ \A u \in users : u.email # "D@x.io"
    /\ Cardinality(users) = 4

----------------------------------------------------------------------------
(* C15: the application serves a theme get route and a theme update route: *)
(* a request with a valid bearer credential to either is handled by        *)
(* get_theme and update_theme respectively.                                *)
C15_ThemeRoutesServed ==
    \A creds \in GoodCredentials :
        /\ \A o \in Serve("settings", creds, {get_theme(AuthUser(creds))}) :
              /\ o.status = 200
              /\ o.body = get_theme(AuthUser(creds)).body
        /\ \A theme \in ThemeName :
              \A o \in Serve("settings", creds,
                             {update_theme(AuthUser(creds), [theme |-> Some(theme)])}) :
                  /\ o.status = 200
                  /\ o.body = [theme |-> theme]
                  /\ o.settings = update_theme(AuthUser(creds), [theme |-> Some(theme)]).settings

----------------------------------------------------------------------------
(* The answers a theme get request with the token of user u may receive. *)
ThemeGetAnswers(u) == Serve("settings", ValidToken(u), {get_theme(u)})

ThemeReadsRight ==
    \A u \in ActiveUserIds :
        \A o \in ThemeGetAnswers(u) :
            /\ o.status = 200
            /\ (\A r \in settings : r.user_id = u => r.theme = None \/ r.theme[1] \notin ThemeName)
                  => o.body.theme = "light"
            /\ (req.op = "update_theme" /\ resp.status = 200 /\ Caller(req).user = u)
                  => o.body.theme = req.body.theme[1]

OthersThemeKept ==
    \A u \in ActiveUserIds :
        (req'.op = "update_theme" /\ Caller(req').user # u)
            => ThemeGetAnswers(u)' = ThemeGetAnswers(u)

(* C16: theme get for a user returns light when the user has no Settings   *)
(* row or a row with an absent or unrecognised theme; right after a        *)
(* successful theme update by the user it returns the theme of that        *)
(* update; and a theme update by another user never changes what it        *)
(* returns, so it returns the theme of the user's most recent successful   *)
(* update.                                                                 *)
C16_ThemeRoundTrip ==
    /\ []ThemeReadsRight
    /\ [][OthersThemeKept]_vars

----------------------------------------------------------------------------
AtMostOneSettingsRecord ==
    \A u \in UserIds : Cardinality({r \in settings : r.user_id = u}) <= 1

ThemeUpdateSucceeds ==
    (req'.op = "update_theme" /\ Caller(req').ok /\ req'.body.theme \in {Some(t) : t \in ThemeName})
        => /\ resp'.status = 200
           /\ \E r \in settings' : r.user_id = Caller(req').user /\ r.theme # None

(* C17: after any theme update requests, in any order, each user has at    *)
(* most one Settings record, and every theme update request with a valid   *)
(* credential succeeds and leaves the user's record holding a theme.      *)
C17_ThemeUpsertAtomic ==
    /\ []AtMostOneSettingsRecord
    /\ [][ThemeUpdateSucceeds]_vars

----------------------------------------------------------------------------
(* The amounts specification: both users create and update projects with   *)
(* bodies whose budget and revenue are positive, zero or negative, alone   *)
(* or next to other fields.                                                *)
MoneyProjectIds == {ProjectIds[i] : i \in 1 .. MoneyMaxProjects}

MoneyProjectCreateBodies ==
    { ProjectBody([name |-> Some("Site"), budget_cents |-> Some(3), revenue_cents |-> Some(5)]),
      ProjectBody([name |-> Some("Site")]),
      ProjectBody([name |-> Some("Site"), budget_cents |-> Some(-1)]),
      ProjectBody([name |-> Some("Site"), budget_cents |-> Some(3), revenue_cents |-> Some(-5)]) }

MoneyProjectUpdateBodies ==
    { ProjectBody([budget_cents |-> Some(0)]),
      ProjectBody([revenue_cents |-> Some(9)]),
      ProjectBody([budget_cents |-> Some(-1)]),
      ProjectBody([name |-> Some("Shop"), revenue_cents |-> Some(-5)]) }

NextMoney ==
    \/ /\ Cardinality(projects) < MoneyMaxProjects
       /\ \E creds \in GoodCredentials, body \in MoneyProjectCreateBodies :
             CreateProject(creds, body)
    \/ \E creds \in GoodCredentials, id \in MoneyProjectIds, body \in MoneyProjectUpdateBodies :
          UpdateProject(creds, id, body)

SpecMoney == Init /\ [][NextMoney]_vars

AmountsNonNegative ==
    \A p \in projects : p.budget_cents \in Nat /\ p.revenue_cents \in Nat

CarriesNegativeAmount(body) ==
    \E f \in {"budget_cents", "revenue_cents"} :
        body[f] \notin {Absent, None} /\ body[f][1] < 0

NegativeAmountRejected ==
    (/\ req'.op \in {"create_project", "update_project"}
     /\ Caller(req').ok
     /\ CarriesNegativeAmount(req'.body))
        => resp'.status = 422 /\ store' = store

(* C18: after any project create and update requests, accepted or          *)
(* rejected, every stored Project has budget_cents and revenue_cents that  *)
(* are integers >= 0; a create or update request carrying a negative       *)
(* budget_cents or revenue_cents is rejected as a validation error and     *)
(* changes nothing.                                                        *)
C18_AmountsNonNegative ==
    /\ []AmountsNonNegative
    /\ [][NegativeAmountRejected]_vars

(* An update of a stored Project carrying a new name and a negative        *)
(* revenue was answered 422; the Project has its old name and a revenue    *)
(* set by an earlier update.                                               *)
C18_Witness ==
    /\ req.op = "update_project" /\ resp.status = 422
    /\ req.body.revenue_cents = Some(-5) /\ req.body.name = Some("Shop")
    /\ \E p \in projects :
          /\ Some(p.id) = req.id /\ p.owner_user_id = Caller(req).user
          /\ p.name = "Site" /\ p.revenue_cents = 9 /\ p.budget_cents = 3

----------------------------------------------------------------------------
(* C19: when Projects of a user have equal recency keys, their order in    *)
(* recent_projects and the choice of those kept at the cut of 5 are        *)
(* deterministic: two dashboard-stats requests against the same stored     *)
(* state return the same recent_projects sequence.                         *)
C19_RecentDeterministic ==
    \A u \in ActiveUserIds :
        /\ \A rows1, rows2 \in RecentRows(u) : rows1 = rows2
        /\ \A o1, o2 \in get_dashboard_stats(u) :
              (o1.status = 200 /\ o2.status = 200)
                 => o1.body.recent_projects = o2.body.recent_projects

----------------------------------------------------------------------------
(* The write specification: both users create clients, and create and      *)
(* update projects with bodies that name a client of their own, a client   *)
(* of the other user or a client that does not exist, next to other        *)
(* fields.                                                                 *)
AtomProjectIds == {ProjectIds[i] : i \in 1 .. AtomMaxProjects}
AtomClientIds == {ClientIds[i] : i \in 1 .. AtomMaxClients} \cup {NeverIssuedId}

AtomProjectCreateBodies ==
    { ProjectBody([name |-> Some("Site")]) }
    \cup {ProjectBody([name |-> Some("App"), client_id |-> Some(c)]) : c \in AtomClientIds}

AtomProjectUpdateBodies ==
    {ProjectBody([client_id |-> Some(c), name |-> Some("Shop"), revenue_cents |-> Some(9)]) :
        c \in AtomClientIds}

NextAtomic ==
    \/ /\ Cardinality(clients) < AtomMaxClients
       /\ \E creds \in GoodCredentials : CreateClient(creds, ClientBody([name |-> Some("Acme")]))
    \/ /\ Cardinality(projects) < AtomMaxProjects
       /\ \E creds \in GoodCredentials, body \in AtomProjectCreateBodies :
             CreateProject(creds, body)
    \/ \E creds \in GoodCredentials, id \in AtomProjectIds, body \in AtomProjectUpdateBodies :
          UpdateProject(creds, id, body)

SpecAtomic == Init /\ [][NextAtomic]_vars

SucceedsOrChangesNothing == Succeeded(resp') \/ store' = store

NamesClientNotOwned(r) ==
    /\ r.op \in {"create_project", "update_project"}
    /\ Caller(r).ok
    /\ r.body.client_id \notin {Absent, None}
    /\ \A c \in clients :
          c.id = r.body.client_id[1] => c.owner_user_id # Caller(r).user

ClientNotFoundChangesNothing ==
    NamesClientNotOwned(req') => resp'.status = 404 /\ store' = store

(* C20: every write request either succeeds or leaves the store unchanged; *)
(* in particular a project create or update naming a client_id that does   *)
(* not exist or is not the caller's is answered 404 and leaves no new      *)
(* Project and no changed field, whatever else the request carries.        *)
C20_WritesAtomic ==
    [][SucceedsOrChangesNothing /\ ClientNotFoundChangesNothing]_vars

(* The part of C20 about the client reference alone. *)
C20_ClientNotFoundAtomic == [][ClientNotFoundChangesNothing]_vars

(* An update naming the other user's client next to a new name and revenue *)
(* was answered 404 and the Project is as it was created.                  *)
C20_ClientNotFoundWitness ==
    /\ req.op = "update_project" /\ resp.status = 404 /\ resp.detail = "Client not found"
    /\ \E c \in clients : Some(c.id) = req.body.client_id /\ c.owner_user_id # Caller(req).user
    /\ \E p \in projects :
          /\ Some(p.id) = req.id /\ p.owner_user_id = Caller(req).user
          /\ p.name = "Site" /\ p.revenue_cents = 0 /\ p.client_id = None

----------------------------------------------------------------------------
(* The client-reference specification: both users create, rename and       *)
(* delete clients, create and update projects with bodies that name a      *)
(* client of their own, a client of the other user or a client that does   *)
(* not exist, delete projects, and read the dashboard and the CSV export.  *)
RefProjectIds == {ProjectIds[i] : i \in 1 .. RefMaxProjects}
RefClientIds == {ClientIds[i] : i \in 1 .. RefMaxClients}
RefClientRefs == RefClientIds \cup {NeverIssuedId}

RefProjectCreateBodies ==
    { ProjectBody([name |-> Some("Site")]) }
    \cup {ProjectBody([name |-> Some("App"), client_id |-> Some(c)]) : c \in RefClientRefs}

RefProjectUpdateBodies ==
    {ProjectBody([client_id |-> Some(c)]) : c \in RefClientRefs}

NextRef ==
    \/ /\ Cardinality(clients) < RefMaxClients
       /\ \E creds \in GoodCredentials : CreateClient(creds, ClientBody([name |-> Some("Acme")]))
    \/ \E creds \in GoodCredentials :
          UpdateClient(creds, ClientIds[1], ClientBody([name |-> Some("Globex")]))
    \/ \E creds \in GoodCredentials, id \in RefClientIds : DeleteClient(creds, id)
    \/ /\ Cardinality(projects) < RefMaxProjects
       /\ \E creds \in GoodCredentials, body \in RefProjectCreateBodies :
             CreateProject(creds, body)
    \/ \E creds \in GoodCredentials, id \in RefProjectIds, body \in RefProjectUpdateBodies :
          UpdateProject(creds, id, body)
    \/ \E creds \in GoodCredentials, id \in RefProjectIds : DeleteProject(creds, id)
    \/ \E creds \in GoodCredentials : GetDashboardStats(creds)
    \/ \E creds \in GoodCredentials : ExportProjectsCsv(creds)

SpecRef == Init /\ [][NextRef]_vars

(* Every Project's client_id is null or names a stored Client of the       *)
(* Project's owner.                                                        *)
ClientRefsOwned ==
    \A p \in projects :
        \/ p.client_id = None
        \/ \E c \in clients : Some(c.id) = p.client_id /\ c.owner_user_id = p.owner_user_id

(* The rows the join on client_id alone gives a Project. *)
JoinedClients(project) == {c \in clients : project.client_id = Some(c.id)}

(* The caller's own Clients that the Project with this id references. *)
OwnClientsOf(u, id) ==
    {c \in clients : c.owner_user_id = u
                     /\ \E p \in projects : p.id = id /\ p.owner_user_id = u
                                            /\ p.client_id = Some(c.id)}

JoinedNamesOwned ==
    /\ \A p \in projects : \A c \in JoinedClients(p) : c.owner_user_id = p.owner_user_id
    /\ (req.op = "get_dashboard_stats" /\ resp.status = 200)
          => \A i \in DOMAIN resp.body.recent_projects :
                LET item == resp.body.recent_projects[i] IN
                \/ item.client_name = None
                \/ \E c \in OwnClientsOf(Caller(req).user, item.id) :
                      item.client_name = Some(c.name)
    /\ (req.op = "export_projects_csv" /\ resp.status = 200)
          => \A i \in DOMAIN resp.body :
                \/ resp.body[i].client_name = ""
                \/ \E c \in OwnClientsOf(Caller(req).user, resp.body[i].id) :
                      resp.body[i].client_name = c.name

(* C23: after any sequence of client and project create, update and delete *)
(* requests by any users, each Project's client_id is null or the id of a  *)
(* stored Client of the Project's owner, so the client name the dashboard  *)
(* and the CSV export join on client_id is never another user's Client's.  *)
C23_ClientRefsOwned == ClientRefsOwned /\ JoinedNamesOwned

(* Both users hold a client; a request naming the other user's client was  *)
(* refused, and a project references its owner's client while the other    *)
(* user's client is stored too.                                            *)
C23_Witness ==
    /\ req.op \in {"create_project", "update_project"}
    /\ resp.status = 404 /\ resp.detail = "Client not found"
    /\ \E c \in clients : Some(c.id) = req.body.client_id /\ c.owner_user_id # Caller(req).user
    /\ \E p \in projects, c \in clients :
          Some(c.id) = p.client_id /\ c.owner_user_id = p.owner_user_id

(* The export answered a row carrying the name of the caller's client      *)
(* while the other user holds a client as well.                            *)
C23_JoinWitness ==
    /\ req.op = "export_projects_csv" /\ resp.status = 200
    /\ \E i \in DOMAIN resp.body : resp.body[i].client_name = "Globex"
    /\ \E c \in clients : c.owner_user_id # Caller(req).user

----------------------------------------------------------------------------
(* Requests handled side by side.  Each worker takes a request, gets its   *)
(* session from get_db, runs the handler in one step or (update_project,   *)
(* signup) in two: the statements up to db.commit(), then the commit; the  *)
(* session is closed when the handler has returned or raised.              *)
Answer(o) == [status |-> o.status, detail |-> o.detail, body |-> o.body]

(* How the handler left: it returned, raised an HTTP error, or failed. *)
ExitKind(answer) ==
    IF Succeeded(answer) THEN "return"
    ELSE IF answer.status = 500 THEN "error" ELSE "http_exception"

(* Mutant: the session is closed after the yield, without try/finally. *)
get_db_OnReturnOnly(kind) == kind = "return"

(* try: yield db  finally: db.close() -- whether the exit closes the session *)
get_db(kind) == kind \in {"return", "http_exception", "error"}

Raised(o) == [raised |-> TRUE, out |-> o, loaded |-> None, edited |-> None]
Pending(loaded, edited) ==
    [raised |-> FALSE, out |-> NoResp, loaded |-> loaded, edited |-> edited]

(* update_project up to db.commit(): the row as the session loaded it and  *)
(* as the assignments left it.                                             *)
update_project_select(uid, project_id, body) ==
    LET payload == ProjectUpdateRequest(body)
        found == FindProject(uid, project_id)
    IN
    IF ~payload.valid THEN Raised(ValidationError)
    ELSE IF found = {} THEN Raised(HTTPException(404, "Project not found"))
    ELSE IF payload.client_id # None /\ ~_ensure_client_belongs_to_user(uid, payload.client_id[1])
    THEN Raised(HTTPException(404, "Client not found"))
    ELSE LET project == CHOOSE p \in found : TRUE
             edited ==
                 [project EXCEPT
                    !.client_id = SetNullableIfGiven(@, payload.client_id),
                    !.name = SetIfGiven(@, payload.name),
                    !.description = SetNullableIfGiven(@, payload.description),
                    !.status = SetIfGiven(@, payload.status),
                    !.start_date = SetNullableIfGiven(@, payload.start_date),
                    !.due_date = SetNullableIfGiven(@, payload.due_date),
                    !.budget_cents = SetIfGiven(@, payload.budget_cents),
                    !.revenue_cents = SetIfGiven(@, payload.revenue_cents)]
         IN Pending(Some(project), Some(edited))

(* Mutant: the flush writes every column of the row as the session holds it. *)
DirtyFields_All(loaded, edited) == ProjectFields

(* The columns the flush writes: those whose value differs from the value  *)
(* the session loaded.                                                     *)
DirtyFields(loaded, edited) == {f \in ProjectFields : edited[f] # loaded[f]}

(* db.commit() and db.refresh(project): UPDATE projects SET the dirty      *)
(* columns WHERE id = the row's id, against the row as stored now; no      *)
(* statement when no column is dirty; then the row is read again.          *)
update_project_commit(loaded, edited) ==
    LET dirty == DirtyFields(loaded, edited)
        stored == {p \in projects : p.id = loaded.id}
    IN
    IF stored = {} THEN InternalServerError(users, clients, projects, settings)
    ELSE IF /\ "client_id" \in dirty /\ edited.client_id # None
            /\ \A c \in clients : Some(c.id) # edited.client_id
    THEN InternalServerError(users, clients, projects, settings)
    ELSE LET current == CHOOSE p \in stored : TRUE
             written == [f \in DOMAIN current |-> IF f \in dirty THEN edited[f] ELSE current[f]]
             saved == IF dirty = {} THEN current
                      ELSE [written EXCEPT !.updated_at = TouchedUpdatedAt(loaded, edited)]
             committed == (projects \ {current}) \cup {saved}
         IN IF ProjectResponseValid(saved)
            THEN Out(200, "", _to_project_response(saved), users, clients, committed, settings)
            ELSE InternalServerError(users, clients, committed, settings)

(* signup up to db.commit(): the lookup, and the User to insert. *)
signup_select(body) ==
    LET payload == SignupRequest(body) IN
    IF ~payload.valid THEN Raised(ValidationError)
    ELSE LET existing == {u \in users : func_lower(u.email) = func_lower(payload.email)} IN
         IF existing # {} THEN Raised(HTTPException(409, "Email already registered"))
         ELSE Pending(None,
                      Some([email |-> payload.email,
                            password_hash |-> hash_password(payload.password),
                            full_name |-> payload.full_name,
                            avatar_url |-> None,
                            is_active |-> TRUE]))

(* The unique index on lower(email) of the users table refuses the row. *)
lower_email_index(user) == \E u \in users : func_lower(u.email) = func_lower(user.email)

(* db.commit() of signup: INSERT the User (its uuid4 is new); a violated   *)
(* index raises IntegrityError, which signup does not catch.               *)
signup_commit(pending) ==
    LET user == [id |-> FreshId(SignupIds, {u.id : u \in users}),
                 email |-> pending.email,
                 password_hash |-> pending.password_hash,
                 full_name |-> pending.full_name,
                 avatar_url |-> pending.avatar_url,
                 is_active |-> pending.is_active]
    IN IF lower_email_index(user)
       THEN InternalServerError(users, clients, projects, settings)
       ELSE Out(201, "", TokenResponse(create_access_token(user.id)),
                users \cup {user}, clients, projects, settings)

TwoStepOps == {"update_project", "signup"}

(* The first step of a handler that commits in a second one. *)
FirstStep(r) ==
    IF r.op = "update_project"
    THEN LET auth == get_current_user(r.creds) IN
         IF ~auth.ok THEN Raised(Unauthorized(auth.detail))
         ELSE update_project_select(auth.user, r.id[1], r.body)
    ELSE signup_select(r.body)

SecondStep(u) ==
    IF u.req.op = "update_project"
    THEN update_project_commit(u.loaded[1], u.edited[1])
    ELSE signup_commit(u.edited[1])

(* The outcomes of a handler that runs in one step. *)
Handled(r) ==
    IF r.op = "get_project"
    THEN Serve("projects", r.creds, {get_project(AuthUser(r.creds), r.id[1])})
    ELSE IF r.op = "create_project"
    THEN Serve("projects", r.creds, {create_project(AuthUser(r.creds), r.body)})
    ELSE Serve("projects", r.creds, {delete_project(AuthUser(r.creds), r.id[1])})

(* A worker takes a request; get_db makes its session. *)
Accept(w, r) ==
    /\ inflight[w].pc = "idle"
    /\ inflight' = [inflight EXCEPT ![w] = Unit("running", r, "open", 0, None, None, NoResp)]
    /\ UNCHANGED <<users, clients, projects, settings, now, updated_at_default, req, resp>>

(* The handler returns or raises with outcome o. *)
Exit(w, o) ==
    /\ inflight' = [inflight EXCEPT ![w] = [@ EXCEPT !.pc = "exiting", !.answer = Answer(o)]]
    /\ req' = inflight[w].req
    /\ resp' = Answer(o)
    /\ users' = o.users
    /\ clients' = o.clients
    /\ projects' = o.projects
    /\ settings' = o.settings
    /\ UNCHANGED <<now, updated_at_default>>

Handle(w) ==
    /\ inflight[w].pc = "running"
    /\ inflight[w].req.op \notin TwoStepOps
    /\ \E o \in Handled(inflight[w].req) : Exit(w, o)

Select(w) ==
    /\ inflight[w].pc = "running"
    /\ inflight[w].req.op \in TwoStepOps
    /\ LET first == FirstStep(inflight[w].req) IN
       IF first.raised THEN Exit(w, first.out)
       ELSE /\ inflight' = [inflight EXCEPT ![w] =
                               [@ EXCEPT !.pc = "flushing", !.loaded = first.loaded,
                                         !.edited = first.edited]]
            /\ UNCHANGED <<users, clients, projects, settings, now, updated_at_default,
                           req, resp>>

Commit(w) ==
    /\ inflight[w].pc = "flushing"
    /\ Exit(w, SecondStep(inflight[w]))

(* The database fails under a statement of the handler (OperationalError). *)
StorageFailure(w) ==
    /\ inflight[w].pc \in {"running", "flushing"}
    /\ Exit(w, InternalServerError(users, clients, projects, settings))

(* get_db after the yield. *)
Close(w) ==
    /\ inflight[w].pc = "exiting"
    /\ inflight' = [inflight EXCEPT ![w] =
                       IF get_db(ExitKind(@.answer))
                       THEN [@ EXCEPT !.pc = "done", !.session = "closed", !.closes = @ + 1]
                       ELSE [@ EXCEPT !.pc = "done"]]
    /\ UNCHANGED <<users, clients, projects, settings, now, updated_at_default, req, resp>>

(* The response is sent and the worker is free again. *)
Respond(w) ==
    /\ inflight[w].pc = "done"
    /\ inflight' = [inflight EXCEPT ![w] = IdleUnit]
    /\ UNCHANGED <<users, clients, projects, settings, now, updated_at_default, req, resp>>

----------------------------------------------------------------------------
(* The interleaved-update specification: u1 creates a project, and two     *)
(* workers handle u1's partial updates of it side by side.                 *)
RaceProjectIds == {ProjectIds[i] : i \in 1 .. RaceMaxProjects}

RaceUpdateBodies ==
    { ProjectBody([name |-> Some("Site")]),
      ProjectBody([name |-> Some("Shop")]),
      ProjectBody([revenue_cents |-> Some(9)]),
      ProjectBody([name |-> Some("Shop"), revenue_cents |-> Some(5)]) }

NextRace ==
    \/ /\ Cardinality(projects) < RaceMaxProjects
       /\ CreateProject(ValidToken("u1"), ProjectBody([name |-> Some("Site")]))
    \/ \E w \in Workers, id \in RaceProjectIds, body \in RaceUpdateBodies :
          Accept(w, Req("update_project", ValidToken("u1"), Some(id), body))
    \/ \E w \in Workers : Select(w)
    \/ \E w \in Workers : Commit(w)
    \/ \E w \in Workers : Close(w)
    \/ \E w \in Workers : Respond(w)

SpecRace == Init /\ [][NextRace]_vars

(* Worker w commits an update of a row that another request has changed    *)
(* since w read it.                                                        *)
CommitsInterleaved(w) ==
    /\ inflight[w].pc = "flushing" /\ inflight'[w].pc = "exiting"
    /\ inflight[w].req.op = "update_project"
    /\ inflight[w].loaded[1] \notin projects

StoredProject(P, id) == CHOOSE p \in P : Some(p.id) = id

(* The commit is answered 200, every field the request wrote holds the     *)
(* request's value, and every other field keeps the value stored before.   *)
LastWriteWins(w) ==
    /\ inflight'[w].answer.status = 200
    /\ AppliedUnlessNull(StoredProject(projects, inflight[w].req.id),
                         StoredProject(projects', inflight[w].req.id),
                         inflight[w].req.body, ProjectFields, NullableProjectFields)

(* C21: when two partial updates of one Project by its owner interleave,   *)
(* neither is rejected for staleness, a field both wrote ends with the     *)
(* value of the request that committed last, and a field only one wrote    *)
(* ends with that request's value, not the value the other request read.   *)
C21_LastWriteWins ==
    [][\A w \in Workers : CommitsInterleaved(w) => LastWriteWins(w)]_vars

(* The part of C21 that holds: the later commit is not refused, and it     *)
(* leaves every field its request did not write as the earlier commit left *)
(* it.                                                                     *)
OthersWritesKept(w) ==
    /\ inflight'[w].answer.status \notin {409, 412}
    /\ \A f \in ProjectFields :
          inflight[w].req.body[f] \in {Absent, None}
             => StoredProject(projects', inflight[w].req.id)[f]
                   = StoredProject(projects, inflight[w].req.id)[f]

C21_OthersWritesKept ==
    [][\A w \in Workers : CommitsInterleaved(w) => OthersWritesKept(w)]_vars

(* Both requests read name Site and revenue 0; one set the name, the other *)
(* the revenue, and after both commits the row holds both values.          *)
C21_OthersWritesKeptWitness ==
    /\ \A w \in Workers : inflight[w].pc = "exiting" /\ inflight[w].answer.status = 200
    /\ \A w \in Workers : inflight[w].loaded[1].name = "Site"
                          /\ inflight[w].loaded[1].revenue_cents = 0
    /\ \E p \in projects : p.name = "Shop" /\ p.revenue_cents = 9

----------------------------------------------------------------------------
(* The concurrent sign-up specification: two workers handle signups with   *)
(* emails that are equal, equal but for letter case, or different, side by *)
(* side.                                                                   *)
RaceSignupBodies ==
    {SignupBody(e, "password-1", None) : e \in {"a@x.io", "d@x.io", "D@x.io", "e@x.io"}}

NextSignupRace ==
    \/ \E w \in Workers, body \in RaceSignupBodies :
          Accept(w, Req("signup", None, None, body))
    \/ \E w \in Workers : Select(w)
    \/ \E w \in Workers : Commit(w)
    \/ \E w \in Workers : Close(w)
    \/ \E w \in Workers : Respond(w)

SpecSignupRace == Init /\ [][NextSignupRace]_vars

(* No two stored users have emails that are equal ignoring letter case. *)
NoDuplicateEmails ==
    \A u \in users, v \in users : EqualIgnoringCase(u.email, v.email) => u = v

(* Worker w commits a signup whose existence check found nothing, while a  *)
(* user with an email equal ignoring case has been stored since.           *)
CommitsDuplicate(w) ==
    /\ inflight[w].pc = "flushing" /\ inflight'[w].pc = "exiting"
    /\ inflight[w].req.op = "signup"
    /\ \E u \in users : EqualIgnoringCase(u.email, inflight[w].edited[1].email)

AnsweredConflict(w) ==
    /\ inflight'[w].answer.status = 409
    /\ inflight'[w].answer.detail = "Email already registered"

(* C24: of two concurrent signups with emails equal ignoring case that     *)
(* both pass the existence check before either commits, at most one user   *)
(* is stored and the other request is answered 409 like a sequential       *)
(* duplicate, not with a storage failure; no interleaving stores two users *)
(* whose emails are equal ignoring case.                                   *)
C24_ConcurrentSignup ==
    /\ []NoDuplicateEmails
    /\ [][\A w \in Workers : CommitsDuplicate(w) => AnsweredConflict(w)]_vars

(* The part of C24 that holds with the index on lower(email): the second   *)
(* commit stores nothing.                                                  *)
C24_AtMostOneUser ==
    /\ []NoDuplicateEmails
    /\ [][\A w \in Workers : CommitsDuplicate(w) => users' = users]_vars

(* Both signups, d@x.io and D@x.io, passed the existence check; one was    *)
(* answered 201 and the other failed at its commit, with one user stored.  *)
C24_AtMostOneUserWitness ==
    /\ \A w \in Workers : inflight[w].pc = "exiting" /\ inflight[w].req.op = "signup"
    /\ \A w \in Workers : inflight[w].edited # None
    /\ {inflight[w].req.body.email : w \in Workers} = {"d@x.io", "D@x.io"}
    /\ {inflight[w].answer.status : w \in Workers} = {201, 500}
    /\ Cardinality({u \in users : EqualIgnoringCase(u.email, "d@x.io")}) = 1

----------------------------------------------------------------------------
(* The session specification: two workers handle project reads (with and   *)
(* without a valid token, of a project that is not stored) and signups     *)
(* (new, duplicate and racing emails); the database may fail under any     *)
(* statement.  A worker that holds a request goes on with it: the handler  *)
(* runs synchronously to its return or exception, and the framework then   *)
(* resumes get_db.                                                         *)
SessionRequests ==
    {Req("get_project", creds, Some(ProjectIds[1]), None) : creds \in {None, ValidToken("u1")}}
    \cup {Req("signup", None, None, SignupBody(e, "password-1", None)) :
             e \in {"a@x.io", "d@x.io", "D@x.io"}}

NextSessions ==
    \/ \E w \in Workers, r \in SessionRequests : Accept(w, r)
    \/ \E w \in Workers : Handle(w)
    \/ \E w \in Workers : Select(w)
    \/ \E w \in Workers : Commit(w)
    \/ \E w \in Workers : StorageFailure(w)
    \/ \E w \in Workers : Close(w)
    \/ \E w \in Workers : Respond(w)

GoesOn(w) == Handle(w) \/ Select(w) \/ Commit(w) \/ Close(w)

SpecSessions ==
    Init /\ [][NextSessions]_vars /\ \A w \in Workers : WF_vars(GoesOn(w))

(* A request in the handler holds an open session that was never closed;   *)
(* a request that has completed holds a session closed exactly once; a     *)
(* free worker holds none.                                                 *)
SessionClosedOnce ==
    \A w \in Workers :
        LET u == inflight[w] IN
        /\ u.pc \in {"running", "flushing", "exiting"} => u.session = "open" /\ u.closes = 0
        /\ u.pc = "done" => u.session = "closed" /\ u.closes = 1
        /\ u.pc = "idle" => u.session = "none"

SessionEventuallyClosed ==
    \A w \in Workers : (inflight[w].session = "open") ~> (inflight[w].session = "closed")

(* C22: every request that got a session from get_db eventually closes it, *)
(* exactly once, whether the handler returned, raised an HTTP error (401   *)
(* from the bearer dependency, 404, 409) or met a storage failure, and no  *)
(* session is open once its request has completed.                         *)
C22_SessionClosed == []SessionClosedOnce /\ SessionEventuallyClosed

(* One request was refused by the bearer dependency and the other met a    *)
(* storage failure; both have completed, each with its session closed      *)
(* once.                                                                   *)
C22_Witness ==
    /\ \A w \in Workers : inflight[w].pc = "done" /\ inflight[w].session = "closed"
                          /\ inflight[w].closes = 1
    /\ {inflight[w].answer.status : w \in Workers} = {401, 500}

(* Likewise after a signup answered 201 and a duplicate answered 409. *)
C22_ReturnWitness ==
    /\ \A w \in Workers : inflight[w].pc = "done" /\ inflight[w].session = "closed"
                          /\ inflight[w].closes = 1
    /\ {inflight[w].answer.status : w \in Workers} = {201, 409}

====
